---------------------------- MODULE Spec2Model ----------------------------
(***************************************************************************)
(* Popcorn: schedule generation and holiday-channel filtering              *)
(* (src/scheduler.py, with the tables of src/models.py).                   *)
(*                                                                         *)
(* Text columns are sequences of one-character strings, so that split,     *)
(* strip, lower, upper, substring search and the word-boundary regex are   *)
(* computed as the code computes them.  A NULL text column is None.        *)
(* Scores (vote_average, popularity, min_rating, min_popularity) are       *)
(* floats in the code and are counted in tenths here.                      *)
(* Columns that are only compared whole (override_type, shuffle_frequency) *)
(* are plain strings.  The scheduler's one session and the committed       *)
(* tables are kept apart: a row added or deleted is persisted by the next  *)
(* commit of that session.                                                 *)
(***************************************************************************)
EXTENDS Integers, Sequences, FiniteSets, TLC

VARIABLES
    movies,            \* table movies, in id order (query(Movie).all())
    holiday_channels,  \* table holiday_channels, in id order
    overrides,         \* table movie_overrides
    tmdb_reply,        \* what the TMDB lookup of each movie id answers
    current_month,     \* datetime.now().month
    today,             \* date.today(), as a day number
    settings,          \* the Settings row as the scheduler's session sees it
    db_settings,       \* the committed Settings row
    schedules,         \* table schedules as the scheduler's session sees it
    db_schedules,      \* the committed table schedules
    pc,                \* where generate_all_schedules stands
    force,             \* its argument
    day,               \* its loop variable
    gi,                \* position in genre_movies.items()
    active_holidays,   \* the list of line 410
    hi,                \* position in active_holidays
    ret,               \* the loop generate_channel_schedule returns to
    pack_channel,      \* channel_name of the running generate_channel_schedule
    valid_movies,      \* its shuffled list
    current_time,      \* its cursor
    movie_index,       \* its index
    channels_generated,
    errors_encountered,
    faults,            \* packing failures the environment may still inject
    outcome,           \* how the last call ended
    matching_movies,   \* last result of get_movies_for_holiday_channel
    active,            \* last result of get_active_holiday_channels
    packed_pairs,      \* history: <<channel, day>> whose packing returned normally
    failed_pairs,      \* history: <<channel, day>> whose packing raised
    last_call,         \* history: what the last generate_all_schedules call saw and decided
    current,           \* last get_current_playing call: its arguments, the clock, its result
    channels,          \* last result of get_all_channels
    requests,          \* the override request each handler thread is serving
    number_call,       \* last get_next_available_number call: its arguments and result
    cache,             \* BoundedImageCache.cache: the entries, the oldest first
    touched,           \* history: the keys in the order of their last get hit or set
    cache_call         \* last BoundedImageCache call: its arguments and what it did

vars == <<movies, holiday_channels, overrides, tmdb_reply, number_call, cache,
          touched, cache_call, current_month, today,
          settings, db_settings, schedules, db_schedules, pc, force, day, gi,
          active_holidays, hi, ret, pack_channel, valid_movies, current_time,
          movie_index, channels_generated, errors_encountered, faults, outcome,
          matching_movies, active, packed_pairs, failed_pairs, last_call,
          current, channels, requests>>

----------------------------------------------------------------------------
(* Python values *)

None == <<"None">>
NoneInt == 0 - 1

\* truth value of a text column: neither None nor ''
Truthy(s) == s # None /\ s # <<>>
\* truth value of a numeric column: neither None nor 0
TruthyNum(n) == n # NoneInt /\ n # 0

UpperCase == <<"A", "B", "G", "H", "O", "P", "R", "X">>
LowerCase == <<"a", "b", "g", "h", "o", "p", "r", "x">>
Digits == <<"0", "1", "2", "3", "4", "5", "6", "7", "8", "9">>

lower_char(c) ==
    IF \E i \in DOMAIN UpperCase : UpperCase[i] = c
    THEN LowerCase[CHOOSE i \in DOMAIN UpperCase : UpperCase[i] = c]
    ELSE c

upper_char(c) ==
    IF \E i \in DOMAIN LowerCase : LowerCase[i] = c
    THEN UpperCase[CHOOSE i \in DOMAIN LowerCase : LowerCase[i] = c]
    ELSE c

lower(s) == [i \in DOMAIN s |-> lower_char(s[i])]
upper(s) == [i \in DOMAIN s |-> upper_char(s[i])]

Range(s) == {s[i] : i \in DOMAIN s}

IsDigit(c) == c \in Range(Digits)
\* \w of the regex: letters, digits, underscore
IsWordChar(c) == c \in Range(UpperCase) \cup Range(LowerCase) \cup Range(Digits) \cup {"_"}

RECURSIVE strip_left(_)
strip_left(s) ==
    IF s # <<>> /\ Head(s) = " " THEN strip_left(Tail(s)) ELSE s

RECURSIVE strip_right(_)
strip_right(s) ==
    IF s # <<>> /\ s[Len(s)] = " " THEN strip_right(SubSeq(s, 1, Len(s) - 1)) ELSE s

strip(s) == strip_right(strip_left(s))

\* s.split(','): the pieces between commas, empty pieces kept
RECURSIVE split(_)
split(s) ==
    IF \E i \in DOMAIN s : s[i] = ","
    THEN LET i == CHOOSE k \in DOMAIN s :
                      s[k] = "," /\ \A j \in 1..(k - 1) : s[j] # ","
         IN  <<SubSeq(s, 1, i - 1)>> \o split(SubSeq(s, i + 1, Len(s)))
    ELSE <<s>>

\* x in s, for strings
contains(s, x) ==
    \E i \in 1..(Len(s) - Len(x) + 1) : SubSeq(s, i, i + Len(x) - 1) = x

\* int(s) of a digit string
RECURSIVE int_of(_)
int_of(s) ==
    IF s = <<>> THEN 0
    ELSE 10 * int_of(SubSeq(s, 1, Len(s) - 1))
         + (CHOOSE d \in 0..(Len(Digits) - 1) : Digits[d + 1] = s[Len(s)])

isdigit(s) == s # <<>> /\ \A i \in DOMAIN s : IsDigit(s[i])

\* \b at gap p of text (between text[p] and text[p+1]; the ends count as non-word)
word_boundary(text, p) ==
    LET before == p >= 1 /\ IsWordChar(text[p])
        after  == p + 1 <= Len(text) /\ IsWordChar(text[p + 1])
    IN  before # after

\* re.search(r'\b' + re.escape(keyword) + r'\b', text, re.IGNORECASE)
re_search_word(keyword, text) ==
    \E i \in 1..(Len(text) - Len(keyword) + 1) :
        /\ lower(SubSeq(text, i, i + Len(keyword) - 1)) = lower(keyword)
        /\ word_boundary(text, i - 1)
        /\ word_boundary(text, i + Len(keyword) - 1)


----------------------------------------------------------------------------
(* Filter Engine: get_movies_for_holiday_channel *)

\* [x.strip().lower() for x in field.split(',')], [] when the column is empty
parse_list(field) ==
    IF Truthy(field)
    THEN LET parts == split(field)
         IN  [i \in DOMAIN parts |-> lower(strip(parts[i]))]
    ELSE <<>>

\* [int(id.strip()) for id in field.split(',') if id.strip().isdigit()]
parse_collection_ids(field) ==
    IF Truthy(field)
    THEN LET parts == split(field)
         IN  {int_of(strip(parts[i])) : i \in {j \in DOMAIN parts : isdigit(strip(parts[j]))}}
    ELSE {}

\* [r.strip().upper() for r in channel.rating_filter.split(',')]
allowed_ratings(channel) ==
    LET parts == split(channel.rating_filter)
    IN  {upper(strip(parts[i])) : i \in DOMAIN parts}

blacklist_ids(channel) ==
    {o.movie_id : o \in {x \in overrides :
        x.channel_name = channel.name /\ x.override_type = "blacklist"}}

whitelist_ids(channel) ==
    {o.movie_id : o \in {x \in overrides :
        x.channel_name = channel.name /\ x.override_type = "whitelist"}}

\* tmdb = TMDBAPI(key) when a Settings row with a key exists
tmdb_configured ==
    settings # <<>> /\ Truthy(settings[1].tmdb_api_key)

genre_match(channel, movie) ==
    LET genre_filters == parse_list(channel.genre_filter)
    IN  \E i \in DOMAIN genre_filters : contains(lower(movie.genre), genre_filters[i])

keyword_match(channel, movie) ==
    LET keywords == parse_list(channel.keywords)
        title_lower == lower(movie.title)
        summary_lower == IF Truthy(movie.summary) THEN lower(movie.summary) ELSE <<>>
    IN  \E i \in DOMAIN keywords :
            \/ re_search_word(keywords[i], title_lower)
            \/ re_search_word(keywords[i], summary_lower)

\* the lookup is made, and returns data
tmdb_data_of(movie) ==
    IF tmdb_configured /\ TruthyNum(movie.year) /\ tmdb_reply[movie.id].kind = "data"
    THEN <<tmdb_reply[movie.id]>>
    ELSE <<>>

tmdb_match(channel, movie) ==
    LET data == tmdb_data_of(movie)
        kws  == parse_list(channel.tmdb_keywords)
    IN  /\ data # <<>>
        /\ \/ /\ parse_collection_ids(channel.tmdb_collection_ids) # {}
              /\ data[1].collection_id # NoneInt
              /\ data[1].collection_id \in parse_collection_ids(channel.tmdb_collection_ids)
           \/ /\ kws # <<>>
              /\ data[1].tmdb_keywords # <<>>
              /\ \E i \in DOMAIN kws : kws[i] \in Range(data[1].tmdb_keywords)

\* the two `continue` of lines 270-277
tmdb_rejects(channel, movie) ==
    LET data == tmdb_data_of(movie)
    IN  /\ data # <<>>
        /\ \/ /\ TruthyNum(channel.min_rating) /\ TruthyNum(data[1].vote_average)
              /\ data[1].vote_average < channel.min_rating
           \/ /\ TruthyNum(channel.min_popularity) /\ TruthyNum(data[1].popularity)
              /\ data[1].popularity < channel.min_popularity

filter_mode_of(channel) ==
    IF Truthy(channel.filter_mode) THEN channel.filter_mode ELSE <<"O", "R">>

\* the combination without lines 291-292: an enrichment match is not OR-ed in
matched_mode_only(channel, movie) ==
    IF Truthy(channel.filter_mode) /\ channel.filter_mode = <<"A", "N", "D">>
    THEN genre_match(channel, movie) /\ keyword_match(channel, movie)
    ELSE genre_match(channel, movie) \/ keyword_match(channel, movie)

\* the combination with the mode ignored: always OR
matched_any(channel, movie) ==
    \/ genre_match(channel, movie) \/ keyword_match(channel, movie)
    \/ tmdb_match(channel, movie)

\* lines 282-292
matched(channel, movie) ==
    \/ IF filter_mode_of(channel) = <<"A", "N", "D">>
       THEN genre_match(channel, movie) /\ keyword_match(channel, movie)
       ELSE genre_match(channel, movie) \/ keyword_match(channel, movie)
    \/ tmdb_match(channel, movie)

\* the rating filter with unrated entries not let through
rating_allows_rated_only(channel, movie) ==
    IF Truthy(channel.rating_filter)
    THEN Truthy(movie.rating) /\ upper(movie.rating) \in allowed_ratings(channel)
    ELSE TRUE

\* lines 296-304
rating_allows(channel, movie) ==
    IF Truthy(channel.rating_filter)
    THEN LET movie_rating_upper == IF Truthy(movie.rating) THEN upper(movie.rating) ELSE <<>>
         IN  movie_rating_upper \in allowed_ratings(channel) \/ ~Truthy(movie.rating)
    ELSE TRUE

\* the loop body without the blacklist check of lines 220-222
is_eligible_no_blacklist(channel, movie) ==
    IF movie.id \in whitelist_ids(channel) THEN TRUE
    ELSE IF tmdb_rejects(channel, movie) THEN FALSE
    ELSE matched(channel, movie) /\ rating_allows(channel, movie)

\* the loop body with the whitelist check moved behind the other filters
is_eligible_late_whitelist(channel, movie) ==
    IF movie.id \in blacklist_ids(channel) THEN FALSE
    ELSE IF tmdb_rejects(channel, movie) THEN FALSE
    ELSE IF ~rating_allows(channel, movie) THEN FALSE
    ELSE movie.id \in whitelist_ids(channel) \/ matched(channel, movie)

\* one pass of the loop body for `movie`: is it appended to matching_movies
is_eligible(channel, movie) ==
    IF movie.id \in blacklist_ids(channel) THEN FALSE
    ELSE IF movie.id \in whitelist_ids(channel) THEN TRUE
    ELSE IF tmdb_rejects(channel, movie) THEN FALSE
    ELSE matched(channel, movie) /\ rating_allows(channel, movie)

\* the loop with the `try` of line 255 around it instead of inside it: the
\* first lookup that raises ends the pass
get_movies_until_failure(channel) ==
    LET raises(m) == tmdb_configured /\ TruthyNum(m.year) /\ tmdb_reply[m.id].kind = "raise"
        stop == {i \in DOMAIN movies :
                    /\ movies[i].id \notin blacklist_ids(channel)
                    /\ movies[i].id \notin whitelist_ids(channel)
                    /\ raises(movies[i])}
        last == IF stop = {} THEN Len(movies)
                ELSE (CHOOSE i \in stop : \A j \in stop : i <= j) - 1
    IN  SelectSeq(SubSeq(movies, 1, last), LAMBDA m : is_eligible(channel, m))

get_movies_for_holiday_channel(channel) ==
    SelectSeq(movies, LAMBDA m : is_eligible(channel, m))

----------------------------------------------------------------------------
(* Channel Directory: get_active_holiday_channels *)

\* the range check without the wrap over the year's end
in_season_no_wrap(channel, month) ==
    channel.start_month <= month /\ month <= channel.end_month

in_season(channel, month) ==
    IF channel.start_month <= channel.end_month
    THEN channel.start_month <= month /\ month <= channel.end_month
    ELSE month >= channel.start_month \/ month <= channel.end_month

get_active_holiday_channels ==
    SelectSeq(holiday_channels, LAMBDA c : in_season(c, current_month))

----------------------------------------------------------------------------
(* Timeline Packer: generate_channel_schedule *)

Threads == {1, 2}

DayMinutes == 1440
NumDays == 7

\* the time of day on a 24-hour clock: minute 1440 reads 00:00
format_time_wrapped(m) ==
    LET h  == (m \div 60) % 24
        mm == m % 60
    IN  <<Digits[(h \div 10) + 1], Digits[(h % 10) + 1], ":",
          Digits[(mm \div 10) + 1], Digits[(mm % 10) + 1]>>

\* f"{m // 60:02d}:{m % 60:02d}"
format_time(m) ==
    LET h  == m \div 60
        mm == m % 60
    IN  <<Digits[(h \div 10) + 1], Digits[(h % 10) + 1], ":",
          Digits[(mm \div 10) + 1], Digits[(mm % 10) + 1]>>

\* [m for m in movies if m.duration > 0]
valid_of(entries) == SelectSeq(entries, LAMBDA m : m.duration > 0)

\* the two early returns of lines 310-317
returns_early(entries) == entries = <<>> \/ valid_of(entries) = <<>>

\* random.shuffle: any order of the list
shuffles(s) ==
    {[i \in DOMAIN s |-> s[f[i]]] : f \in Permutations(DOMAIN s)}

\* query(Schedule).filter_by(channel=..., day=...).delete(), on a table
delete_pair(table, channel_name, d) ==
    SelectSeq(table, LAMBDA r : ~(r.channel = channel_name /\ r.day = d))

\* end_minutes without the clamp of lines 337-338
unclamped_end(start_minutes, duration) == start_minutes + duration

\* an entry that does not fit into the rest of the day leaves the cursor where
\* it is
clamp_end_stalls(start_minutes, duration) ==
    IF start_minutes + duration > DayMinutes
    THEN start_minutes
    ELSE start_minutes + duration

\* end_minutes of lines 335-338
clamp_end(start_minutes, duration) ==
    IF start_minutes + duration > DayMinutes
    THEN DayMinutes
    ELSE start_minutes + duration

\* Schedule(...) of lines 343-349
schedule_entry(channel_name, movie, start_minutes, d) ==
    [channel    |-> channel_name,
     movie_id   |-> movie.id,
     start_time |-> format_time(start_minutes),
     end_time   |-> format_time(clamp_end(start_minutes, movie.duration)),
     day        |-> d]

\* lines 319-324 for a list that passed the early returns: delete the pair's
\* rows, shuffle, reset the cursor; `back` is where the caller goes on
begin_pack(p, channel_name, entries, d, back) ==
    /\ \E order \in shuffles(valid_of(entries)) :
           valid_movies' = [valid_movies EXCEPT ![p] = order]
    /\ schedules' = delete_pair(schedules, channel_name, d)
    /\ current_time' = [current_time EXCEPT ![p] = 0]
    /\ movie_index' = [movie_index EXCEPT ![p] = 0]
    /\ pack_channel' = [pack_channel EXCEPT ![p] = channel_name]
    /\ ret' = [ret EXCEPT ![p] = back]
    /\ pc' = [pc EXCEPT ![p] = "pack_loop"]
    /\ packed_pairs' = [q \in Threads |-> packed_pairs[q] \ {<<channel_name, d>>}]
    /\ failed_pairs' = [failed_pairs EXCEPT ![p] = @ \ {<<channel_name, d>>}]
    /\ UNCHANGED last_call

\* the caller's loop index moves on when generate_channel_schedule is left
advance(p) ==
    /\ gi' = [gi EXCEPT ![p] = IF ret[p] = "genres" THEN @ + 1 ELSE @]
    /\ hi' = [hi EXCEPT ![p] = IF ret[p] = "holidays" THEN @ + 1 ELSE @]

\* the loop body without the movie_index += 1 of line 353
PackLoopSameEntry(p) ==
    /\ pc[p] = "pack_loop"
    /\ current_time[p] < DayMinutes
    /\ LET movie == valid_movies[p][(movie_index[p] % Len(valid_movies[p])) + 1]
       IN  IF movie.duration <= 0
           THEN /\ movie_index' = [movie_index EXCEPT ![p] = @ + 1]
                /\ UNCHANGED <<schedules, current_time>>
           ELSE /\ schedules' = Append(schedules,
                        schedule_entry(pack_channel[p], movie, current_time[p], day[p]))
                /\ current_time' = [current_time EXCEPT ![p] =
                        clamp_end(current_time[p], movie.duration)]
                /\ movie_index' = movie_index
    /\ UNCHANGED <<requests, current, channels,
                   movies, holiday_channels, overrides, tmdb_reply, number_call,
                   cache, touched, cache_call, current_month,
                   today, settings, db_settings, db_schedules, pc, force, day, gi,
                   active_holidays, hi, ret, pack_channel, valid_movies,
                   channels_generated, errors_encountered, faults, outcome,
                   matching_movies, active, packed_pairs, failed_pairs,
                   last_call>>

\* the loop body over the list as it was passed in, without the filter of line
\* 314 and the skip of lines 329-332
PackLoopSchedulesAny(p) ==
    /\ pc[p] = "pack_loop"
    /\ current_time[p] < DayMinutes
    /\ LET movie == movies[(movie_index[p] % Len(movies)) + 1]
       IN  /\ schedules' = Append(schedules,
                   schedule_entry(pack_channel[p], movie, current_time[p], day[p]))
           /\ current_time' = [current_time EXCEPT ![p] =
                   clamp_end(current_time[p], movie.duration)]
           /\ movie_index' = [movie_index EXCEPT ![p] = @ + 1]
    /\ UNCHANGED <<requests, current, channels,
                   movies, holiday_channels, overrides, tmdb_reply, number_call,
                   cache, touched, cache_call, current_month,
                   today, settings, db_settings, db_schedules, pc, force, day, gi,
                   active_holidays, hi, ret, pack_channel, valid_movies,
                   channels_generated, errors_encountered, faults, outcome,
                   matching_movies, active, packed_pairs, failed_pairs,
                   last_call>>

\* one iteration of the while loop, lines 326-353
PackLoop(p) ==
    /\ pc[p] = "pack_loop"
    /\ current_time[p] < DayMinutes
    /\ LET movie == valid_movies[p][(movie_index[p] % Len(valid_movies[p])) + 1]
       IN  IF movie.duration <= 0
           THEN /\ movie_index' = [movie_index EXCEPT ![p] = @ + 1]
                /\ UNCHANGED <<schedules, current_time>>
           ELSE /\ schedules' = Append(schedules,
                        schedule_entry(pack_channel[p], movie, current_time[p], day[p]))
                /\ current_time' = [current_time EXCEPT ![p] =
                        clamp_end(current_time[p], movie.duration)]
                /\ movie_index' = [movie_index EXCEPT ![p] = @ + 1]
    /\ UNCHANGED <<requests, current, channels,
                   movies, holiday_channels, overrides, tmdb_reply, number_call,
                   cache, touched, cache_call, current_month,
                   today, settings, db_settings, db_schedules, pc, force, day, gi,
                   active_holidays, hi, ret, pack_channel, valid_movies,
                   channels_generated, errors_encountered, faults, outcome,
                   matching_movies, active, packed_pairs, failed_pairs,
                   last_call>>

\* the loop is left, line 355 commits the session, and the caller counts the
\* channel (lines 403, 416)
PackCommit(p) ==
    /\ pc[p] = "pack_loop"
    /\ current_time[p] >= DayMinutes
    /\ db_schedules' = schedules
    /\ db_settings' = settings
    /\ channels_generated' = [channels_generated EXCEPT ![p] =
            IF ret[p] = "caller" THEN @ ELSE @ + 1]
    /\ advance(p)
    /\ pc' = [pc EXCEPT ![p] = IF ret[p] = "caller" THEN "idle" ELSE ret[p]]
    /\ packed_pairs' = [packed_pairs EXCEPT ![p] = @ \cup {<<pack_channel[p], day[p]>>}]
    /\ UNCHANGED <<requests, current, channels,
                   movies, holiday_channels, overrides, tmdb_reply, number_call,
                   cache, touched, cache_call, current_month,
                   today, settings, schedules, force, day, active_holidays, ret,
                   pack_channel, valid_movies, current_time, movie_index,
                   errors_encountered, faults, outcome, matching_movies, active,
                   failed_pairs,
                   last_call>>

\* the exception handled by the day's handler of lines 425-428 instead: the rest
\* of the day is given up
PackFailSkipsDay(p) ==
    /\ pc[p] = "pack_loop"
    /\ current_time[p] < DayMinutes
    /\ ret[p] # "caller"
    /\ faults > 0
    /\ faults' = faults - 1
    /\ errors_encountered' = [errors_encountered EXCEPT ![p] = @ + 1]
    /\ active_holidays' = [active_holidays EXCEPT ![p] = <<>>]
    /\ hi' = [hi EXCEPT ![p] = 1]
    /\ pc' = [pc EXCEPT ![p] = "holidays"]
    /\ failed_pairs' = [failed_pairs EXCEPT ![p] = @ \cup {<<pack_channel[p], day[p]>>}]
    /\ UNCHANGED <<requests, current, channels,
                   movies, holiday_channels, overrides, tmdb_reply, number_call,
                   cache, touched, cache_call, current_month,
                   today, settings, db_settings, schedules, db_schedules, force, day,
                   gi, ret, pack_channel, valid_movies, current_time, movie_index,
                   channels_generated, outcome, matching_movies, active,
                   packed_pairs, last_call>>

\* an exception inside the while loop: generate_channel_schedule is left without
\* commit or rollback, the handler of lines 404-407 or 417-420 counts it and the
\* caller's loop continues
PackFail(p) ==
    /\ pc[p] = "pack_loop"
    /\ current_time[p] < DayMinutes
    /\ ret[p] # "caller"
    /\ faults > 0
    /\ faults' = faults - 1
    /\ errors_encountered' = [errors_encountered EXCEPT ![p] = @ + 1]
    /\ advance(p)
    /\ pc' = [pc EXCEPT ![p] = ret[p]]
    /\ failed_pairs' = [failed_pairs EXCEPT ![p] = @ \cup {<<pack_channel[p], day[p]>>}]
    /\ UNCHANGED last_call
    /\ UNCHANGED <<requests, current, channels,
                   movies, holiday_channels, overrides, tmdb_reply, number_call,
                   cache, touched, cache_call, current_month,
                   today, settings, db_settings, schedules, db_schedules, force, day,
                   active_holidays, ret, pack_channel, valid_movies, current_time,
                   movie_index, channels_generated, outcome, matching_movies, active,
                   packed_pairs>>

\* generate_channel_schedule called on its own, with the catalog as its list
generate_channel_schedule(p, channel_name, d) ==
    /\ pc[p] = "idle"
    /\ day' = [day EXCEPT ![p] = d]
    /\ IF returns_early(movies)
       THEN /\ outcome' = [outcome EXCEPT ![p] = "no_movies"]
            /\ UNCHANGED <<schedules, valid_movies, current_time, movie_index,
                           pack_channel, ret, pc, packed_pairs, failed_pairs,
                   last_call>>
       ELSE /\ begin_pack(p, channel_name, movies, d, "caller")
            /\ outcome' = [outcome EXCEPT ![p] = "packing"]
    /\ UNCHANGED <<requests, current, channels,
                   movies, holiday_channels, overrides, tmdb_reply, number_call,
                   cache, touched, cache_call, current_month,
                   today, settings, db_settings, db_schedules, force, gi,
                   active_holidays, hi, channels_generated, errors_encountered,
                   faults, matching_movies, active>>

----------------------------------------------------------------------------
(* Schedule Orchestrator: generate_all_schedules *)

DailyDays == 1
WeeklyDays == 7
MonthlyDays == 30

\* Settings(shuffle_frequency='weekly', last_shuffle_date=None), line 364
new_settings ==
    [shuffle_frequency |-> "weekly", last_shuffle_date |-> NoneInt, tmdb_api_key |-> None]

\* the staleness check left out: every call regenerates
regeneration_due_always(f, is_first_run, row) == TRUE

\* the thresholds compared with <= instead of <
regeneration_due_late(f, is_first_run, row) ==
    ~ ( /\ ~f
        /\ ~is_first_run
        /\ row.last_shuffle_date # NoneInt
        /\ LET days_since_shuffle == today - row.last_shuffle_date
           IN  \/ row.shuffle_frequency = "daily" /\ days_since_shuffle <= DailyDays
               \/ row.shuffle_frequency = "weekly" /\ days_since_shuffle <= WeeklyDays
               \/ row.shuffle_frequency = "monthly" /\ days_since_shuffle <= MonthlyDays )

\* the three early returns of lines 369-380 are not taken
regeneration_due(f, is_first_run, row) ==
    ~ ( /\ ~f
        /\ ~is_first_run
        /\ row.last_shuffle_date # NoneInt
        /\ LET days_since_shuffle == today - row.last_shuffle_date
           IN  \/ row.shuffle_frequency = "daily" /\ days_since_shuffle < DailyDays
               \/ row.shuffle_frequency = "weekly" /\ days_since_shuffle < WeeklyDays
               \/ row.shuffle_frequency = "monthly" /\ days_since_shuffle < MonthlyDays )

\* keys of genre_movies in insertion order, lines 387-393
RECURSIVE genres_of(_)
genres_of(entries) ==
    IF entries = <<>> THEN <<>>
    ELSE LET rest == genres_of(SubSeq(entries, 1, Len(entries) - 1))
             g    == entries[Len(entries)].genre
         IN  IF g \in Range(rest) THEN rest ELSE Append(rest, g)

\* genre_movies[genre]
genre_movie_list(genre) == SelectSeq(movies, LAMBDA m : m.genre = genre)

\* lines 360-382: load or create the Settings row, then return or go on
enter_generate_all_schedules(p, f) ==
    /\ pc[p] = "idle"
    /\ force' = [force EXCEPT ![p] = f]
    /\ LET is_first_run == settings = <<>>
           row == IF is_first_run THEN new_settings ELSE settings[1]
       IN  /\ settings' = <<row>>
           /\ IF is_first_run
              THEN db_settings' = <<row>> /\ db_schedules' = schedules
              ELSE UNCHANGED <<db_settings, db_schedules>>
           /\ IF regeneration_due(f, is_first_run, row)
              THEN /\ pc' = [pc EXCEPT ![p] = "bulk_delete"]
                   /\ outcome' = [outcome EXCEPT ![p] = "running"]
              ELSE /\ pc' = [pc EXCEPT ![p] = "idle"]
                   /\ outcome' = [outcome EXCEPT ![p] = "skipped"]
           /\ last_call' = [last_call EXCEPT ![p] =
                  [made |-> TRUE, force |-> f, today |-> today, before |-> settings,
                   proceeded |-> (pc'[p] = "bulk_delete")]]
    /\ UNCHANGED <<current, channels, movies, holiday_channels, tmdb_reply, number_call,
                   cache, touched, cache_call,
                   current_month, today, schedules, day, gi, active_holidays, hi, ret, pack_channel,
                   valid_movies, current_time, movie_index, channels_generated,
                   errors_encountered, faults, matching_movies, active,
                   packed_pairs, failed_pairs>>

\* generate_all_schedules(force=f) called by a thread that does nothing else in
\* the step
generate_all_schedules(p, f) ==
    /\ enter_generate_all_schedules(p, f)
    /\ UNCHANGED <<requests, overrides>>

\* lines 385-396 without the delete of line 384
BulkDeleteKeepsRows(p) ==
    /\ pc[p] = "bulk_delete"
    /\ schedules' = schedules
    /\ db_schedules' = schedules
    /\ db_settings' = settings
    /\ channels_generated' = [channels_generated EXCEPT ![p] = 0]
    /\ errors_encountered' = [errors_encountered EXCEPT ![p] = 0]
    /\ day' = [day EXCEPT ![p] = 0]
    /\ gi' = [gi EXCEPT ![p] = 1]
    /\ pc' = [pc EXCEPT ![p] = "genres"]
    /\ packed_pairs' = [q \in Threads |-> {}]
    /\ failed_pairs' = [failed_pairs EXCEPT ![p] = {}]
    /\ UNCHANGED last_call
    /\ UNCHANGED <<requests, current, channels,
                   movies, holiday_channels, overrides, tmdb_reply, number_call,
                   cache, touched, cache_call, current_month,
                   today, settings, force, active_holidays, hi, ret, pack_channel,
                   valid_movies, current_time, movie_index, faults, outcome,
                   matching_movies, active>>

\* lines 384-396: delete every slot, commit, group the movies by genre
BulkDelete(p) ==
    /\ pc[p] = "bulk_delete"
    /\ schedules' = <<>>
    /\ db_schedules' = <<>>
    /\ db_settings' = settings
    /\ channels_generated' = [channels_generated EXCEPT ![p] = 0]
    /\ errors_encountered' = [errors_encountered EXCEPT ![p] = 0]
    /\ day' = [day EXCEPT ![p] = 0]
    /\ gi' = [gi EXCEPT ![p] = 1]
    /\ pc' = [pc EXCEPT ![p] = "genres"]
    /\ packed_pairs' = [q \in Threads |-> {}]
    /\ failed_pairs' = [failed_pairs EXCEPT ![p] = {}]
    /\ UNCHANGED last_call
    /\ UNCHANGED <<requests, current, channels,
                   movies, holiday_channels, overrides, tmdb_reply, number_call,
                   cache, touched, cache_call, current_month,
                   today, settings, force, active_holidays, hi, ret, pack_channel,
                   valid_movies, current_time, movie_index, faults, outcome,
                   matching_movies, active>>

\* the failure of lines 384-385 without the rollback of line 441: the delete
\* stays pending in the session
BulkDeleteFailNoRollback(p) ==
    /\ pc[p] = "bulk_delete"
    /\ faults > 0
    /\ faults' = faults - 1
    /\ schedules' = <<>>
    /\ pc' = [pc EXCEPT ![p] = "idle"]
    /\ outcome' = [outcome EXCEPT ![p] = "raised"]
    /\ UNCHANGED <<requests, current, channels,
                   movies, holiday_channels, overrides, tmdb_reply, number_call,
                   cache, touched, cache_call, current_month,
                   today, settings, db_settings, db_schedules, force, day, gi,
                   active_holidays, hi, ret, pack_channel, valid_movies, current_time,
                   movie_index, channels_generated, errors_encountered,
                   matching_movies, active, packed_pairs, failed_pairs, last_call>>

\* the delete of line 384 or the commit of line 385 raises: the handler of lines
\* 438-444 rolls the session back to the committed tables and raises again
BulkDeleteFail(p) ==
    /\ pc[p] = "bulk_delete"
    /\ faults > 0
    /\ faults' = faults - 1
    /\ schedules' = db_schedules
    /\ settings' = db_settings
    /\ pc' = [pc EXCEPT ![p] = "idle"]
    /\ outcome' = [outcome EXCEPT ![p] = "raised"]
    /\ UNCHANGED <<requests, current, channels,
                   movies, holiday_channels, overrides, tmdb_reply, number_call,
                   cache, touched, cache_call, current_month,
                   today, db_settings, db_schedules, force, day, gi,
                   active_holidays, hi, ret, pack_channel, valid_movies, current_time,
                   movie_index, channels_generated, errors_encountered,
                   matching_movies, active, packed_pairs, failed_pairs, last_call>>

\* lines 400-403: the next genre of the day
GenreStep(p) ==
    /\ pc[p] = "genres"
    /\ gi[p] <= Len(genres_of(movies))
    /\ LET genre == genres_of(movies)[gi[p]]
       IN  IF returns_early(genre_movie_list(genre))
           THEN /\ channels_generated' = [channels_generated EXCEPT ![p] = @ + 1]
                /\ gi' = [gi EXCEPT ![p] = @ + 1]
                /\ UNCHANGED <<schedules, valid_movies, current_time, movie_index,
                               pack_channel, ret, pc, packed_pairs, failed_pairs,
                   last_call>>
           ELSE /\ begin_pack(p, genre, genre_movie_list(genre), day[p], "genres")
                /\ UNCHANGED <<channels_generated, gi>>
    /\ UNCHANGED <<requests, current, channels,
                   movies, holiday_channels, overrides, tmdb_reply, number_call,
                   cache, touched, cache_call, current_month,
                   today, settings, db_settings, db_schedules, force, day,
                   active_holidays, hi, errors_encountered, faults, outcome,
                   matching_movies, active>>

\* line 410: the genres of the day are done, the themed channels in season follow
GenresDone(p) ==
    /\ pc[p] = "genres"
    /\ gi[p] > Len(genres_of(movies))
    /\ active_holidays' = [active_holidays EXCEPT ![p] = get_active_holiday_channels]
    /\ hi' = [hi EXCEPT ![p] = 1]
    /\ pc' = [pc EXCEPT ![p] = "holidays"]
    /\ UNCHANGED <<requests, current, channels,
                   movies, holiday_channels, overrides, tmdb_reply, number_call,
                   cache, touched, cache_call, current_month,
                   today, settings, db_settings, schedules, db_schedules, force, day,
                   gi, ret, pack_channel, valid_movies, current_time, movie_index,
                   channels_generated, errors_encountered, faults, outcome,
                   matching_movies, active, packed_pairs, failed_pairs,
                   last_call>>

\* lines 411-416: the next themed channel of the day
HolidayStep(p) ==
    /\ pc[p] = "holidays"
    /\ hi[p] <= Len(active_holidays[p])
    /\ LET holiday_channel == active_holidays[p][hi[p]]
           holiday_movies  == get_movies_for_holiday_channel(holiday_channel)
       IN  IF holiday_movies = <<>>
           THEN /\ hi' = [hi EXCEPT ![p] = @ + 1]
                /\ UNCHANGED <<schedules, valid_movies, current_time, movie_index,
                               pack_channel, ret, pc, channels_generated,
                               packed_pairs, failed_pairs,
                   last_call>>
           ELSE IF returns_early(holiday_movies)
           THEN /\ channels_generated' = [channels_generated EXCEPT ![p] = @ + 1]
                /\ hi' = [hi EXCEPT ![p] = @ + 1]
                /\ UNCHANGED <<schedules, valid_movies, current_time, movie_index,
                               pack_channel, ret, pc, packed_pairs, failed_pairs,
                   last_call>>
           ELSE /\ begin_pack(p, holiday_channel.name, holiday_movies, day[p], "holidays")
                /\ UNCHANGED <<channels_generated, hi>>
    /\ UNCHANGED <<requests, current, channels,
                   movies, holiday_channels, overrides, tmdb_reply, number_call,
                   cache, touched, cache_call, current_month,
                   today, settings, db_settings, db_schedules, force, day, gi,
                   active_holidays, errors_encountered, faults, outcome,
                   matching_movies, active>>

\* the themed channels of the day are done: next day, or leave the loop of line 398
HolidaysDone(p) ==
    /\ pc[p] = "holidays"
    /\ hi[p] > Len(active_holidays[p])
    /\ day' = [day EXCEPT ![p] = @ + 1]
    /\ gi' = [gi EXCEPT ![p] = 1]
    /\ pc' = [pc EXCEPT ![p] = IF day[p] + 1 < NumDays THEN "genres" ELSE "finish"]
    /\ UNCHANGED <<requests, current, channels,
                   movies, holiday_channels, overrides, tmdb_reply, number_call,
                   cache, touched, cache_call, current_month,
                   today, settings, db_settings, schedules, db_schedules, force,
                   active_holidays, hi, ret, pack_channel, valid_movies, current_time,
                   movie_index, channels_generated, errors_encountered, faults,
                   outcome, matching_movies, active, packed_pairs, failed_pairs,
                   last_call>>

\* lines 430-436 with the date recorded only after a run without errors
FinishDatedWhenClean(p) ==
    /\ pc[p] = "finish"
    /\ settings' = IF errors_encountered[p] > 0 THEN settings
                    ELSE <<[settings[1] EXCEPT !.last_shuffle_date = today]>>
    /\ db_settings' = settings'
    /\ db_schedules' = schedules
    /\ pc' = [pc EXCEPT ![p] = "idle"]
    /\ outcome' = [outcome EXCEPT ![p] = "done"]
    /\ UNCHANGED <<requests, current, channels,
                   movies, holiday_channels, overrides, tmdb_reply, number_call,
                   cache, touched, cache_call, current_month,
                   today, schedules, force, day, gi, active_holidays, hi, ret,
                   pack_channel, valid_movies, current_time, movie_index,
                   channels_generated, errors_encountered, faults, matching_movies,
                   active, packed_pairs, failed_pairs,
                   last_call>>

\* lines 430-436: record the run and commit
Finish(p) ==
    /\ pc[p] = "finish"
    /\ settings' = <<[settings[1] EXCEPT !.last_shuffle_date = today]>>
    /\ db_settings' = settings'
    /\ db_schedules' = schedules
    /\ pc' = [pc EXCEPT ![p] = "idle"]
    /\ outcome' = [outcome EXCEPT ![p] = "done"]
    /\ UNCHANGED <<requests, current, channels,
                   movies, holiday_channels, overrides, tmdb_reply, number_call,
                   cache, touched, cache_call, current_month,
                   today, schedules, force, day, gi, active_holidays, hi, ret,
                   pack_channel, valid_movies, current_time, movie_index,
                   channels_generated, errors_encountered, faults, matching_movies,
                   active, packed_pairs, failed_pairs,
                   last_call>>

----------------------------------------------------------------------------
(* Callers outside the scheduler *)

\* the channel test of src/app.py: the ids get_movies_for_holiday_channel returns
TestChannel ==
    /\ \A p \in Threads : pc[p] = "idle"
    /\ holiday_channels # <<>>
    /\ LET found == get_movies_for_holiday_channel(holiday_channels[1])
       IN  matching_movies' = <<[i \in DOMAIN found |-> found[i].id]>>
    /\ UNCHANGED <<requests, current, channels,
                   movies, holiday_channels, overrides, tmdb_reply, number_call,
                   cache, touched, cache_call, current_month,
                   today, settings, db_settings, schedules, db_schedules, pc, force,
                   day, gi, active_holidays, hi, ret, pack_channel, valid_movies,
                   current_time, movie_index, channels_generated, errors_encountered,
                   faults, outcome, active, packed_pairs, failed_pairs,
                   last_call>>

\* get_active_holiday_channels as get_all_channels calls it: the names in season
GetActive ==
    /\ LET found == get_active_holiday_channels
       IN  active' = <<[i \in DOMAIN found |-> found[i].name]>>
    /\ UNCHANGED <<requests, current, channels,
                   movies, holiday_channels, overrides, tmdb_reply, number_call,
                   cache, touched, cache_call, current_month,
                   today, settings, db_settings, schedules, db_schedules, pc, force,
                   day, gi, active_holidays, hi, ret, pack_channel, valid_movies,
                   current_time, movie_index, channels_generated, errors_encountered,
                   faults, outcome, matching_movies, packed_pairs, failed_pairs,
                   last_call>>

\* the calendar moves on between two calls
Dates == {0, 1, 6, 7, 29, 30}

Tick ==
    /\ \A p \in Threads : pc[p] = "idle"
    /\ \E t \in Dates :
           /\ t > today
           /\ \A u \in Dates : u > today => t <= u
           /\ today' = t
    /\ UNCHANGED <<requests, current, channels,
                   movies, holiday_channels, overrides, tmdb_reply, number_call,
                   cache, touched, cache_call, current_month,
                   settings, db_settings, schedules, db_schedules, pc, force, day, gi,
                   active_holidays, hi, ret, pack_channel, valid_movies, current_time,
                   movie_index, channels_generated, errors_encountered, faults,
                   outcome, matching_movies, active, packed_pairs, failed_pairs,
                   last_call>>

----------------------------------------------------------------------------
(* Rows *)

Movie(id, title, genre, duration, year, rating, summary) ==
    [id |-> id, title |-> title, genre |-> genre, duration |-> duration,
     year |-> year, rating |-> rating, summary |-> summary]

HolidayChannel(name, start_month, end_month, genre_filter, keywords, rating_filter, filter_mode, tmdb) ==
    [name |-> name, start_month |-> start_month, end_month |-> end_month,
     genre_filter |-> genre_filter, keywords |-> keywords,
     rating_filter |-> rating_filter, filter_mode |-> filter_mode,
     tmdb_collection_ids |-> tmdb[1], tmdb_keywords |-> tmdb[2],
     min_rating |-> tmdb[3], min_popularity |-> tmdb[4]]

MovieOverride(id, channel_name, movie_id, override_type) ==
    [id |-> id, channel_name |-> channel_name, movie_id |-> movie_id,
     override_type |-> override_type]

Settings(shuffle_frequency, last_shuffle_date, tmdb_api_key) ==
    [shuffle_frequency |-> shuffle_frequency,
     last_shuffle_date |-> last_shuffle_date, tmdb_api_key |-> tmdb_api_key]

TmdbData(collection_id, keywords, vote_average, popularity) ==
    [kind |-> "data", collection_id |-> collection_id, tmdb_keywords |-> keywords,
     vote_average |-> vote_average, popularity |-> popularity]

TmdbNone == [kind |-> "none", collection_id |-> NoneInt, tmdb_keywords |-> <<>>,
             vote_average |-> NoneInt, popularity |-> NoneInt]

TmdbRaises == [TmdbNone EXCEPT !.kind = "raise"]

NoTmdb == <<None, None, NoneInt, NoneInt>>

AND == <<"A", "N", "D">>
OR == <<"O", "R">>

\* a handler thread that serves no override request
NoRequest == [at |-> "none", channel_name |-> <<>>, movie_id |-> 0,
              override_type |-> "", existing |-> 0]

\* no call is running
IdleLocals ==
    /\ pc = [p \in Threads |-> "idle"]
    /\ force = [p \in Threads |-> FALSE]
    /\ day = [p \in Threads |-> 0]
    /\ gi = [p \in Threads |-> 1]
    /\ active_holidays = [p \in Threads |-> <<>>]
    /\ hi = [p \in Threads |-> 1]
    /\ ret = [p \in Threads |-> "caller"]
    /\ pack_channel = [p \in Threads |-> <<>>]
    /\ valid_movies = [p \in Threads |-> <<>>]
    /\ current_time = [p \in Threads |-> 0]
    /\ movie_index = [p \in Threads |-> 0]
    /\ channels_generated = [p \in Threads |-> 0]
    /\ errors_encountered = [p \in Threads |-> 0]
    /\ outcome = [p \in Threads |-> "none"]
    /\ packed_pairs = [p \in Threads |-> {}]
    /\ failed_pairs = [p \in Threads |-> {}]
    /\ matching_movies = <<>>
    /\ active = <<>>
    /\ current = <<>>
    /\ channels = <<>>
    /\ requests = [p \in Threads |-> NoRequest]
    /\ number_call = <<>>
    /\ cache = <<>>
    /\ touched = <<>>
    /\ cache_call = <<>>
    /\ last_call = [p \in Threads |->
           [made |-> FALSE, force |-> FALSE, today |-> 0, before |-> <<>>,
            proceeded |-> FALSE]]

----------------------------------------------------------------------------
(* Season check: one themed channel of any month range, in any month *)

Months == 1..12

InitSeason ==
    /\ IdleLocals
    /\ movies = <<Movie(1, <<"B", " ", "a">>, <<"H", "o">>, 500, NoneInt, None, None)>>
    /\ \E s \in Months, e \in Months :
           holiday_channels =
               <<HolidayChannel(<<"X">>, s, e, <<"h", "o">>, <<"a">>, None, AND, NoTmdb)>>
    /\ overrides = {}
    /\ tmdb_reply = [i \in {1} |-> TmdbNone]
    /\ current_month \in Months
    /\ today = 0
    /\ settings = <<>>
    /\ db_settings = <<>>
    /\ schedules = <<>>
    /\ db_schedules = <<>>
    /\ faults = 0

NextSeason == GetActive

SpecSeason == InitSeason /\ [][NextSeason]_vars

\* the months walked from start_month forward to end_month, December followed
\* by January
cyclic_months(s, e) ==
    {((s - 1 + k) % 12) + 1 : k \in 0..((e - s + 12) % 12)}

\* C6: get_active_holiday_channels returns a themed channel iff the current
\* month lies in the cyclic inclusive range from its start_month to its
\* end_month; a channel with start 11 and end 1 is active exactly in the
\* months 11, 12 and 1.
C6_SeasonRange ==
    active # <<>> =>
        \A i \in DOMAIN holiday_channels :
            LET c == holiday_channels[i]
            IN  /\ (c.name \in Range(active[1]))
                     <=> (current_month \in cyclic_months(c.start_month, c.end_month))
                /\ (c.start_month = 11 /\ c.end_month = 1) =>
                     ((c.name \in Range(active[1])) <=> (current_month \in {11, 12, 1}))

C6_Witness ==
    /\ active # <<>>
    /\ holiday_channels[1].start_month = 11
    /\ holiday_channels[1].end_month = 1
    /\ current_month = 12
    /\ holiday_channels[1].name \in Range(active[1])

----------------------------------------------------------------------------
(* Filter Engine: one themed channel X, the entry under test (id 1), a second
   entry that matches genre and keyword (id 2), and the overrides, the
   enrichment key and the enrichment answer of the entry under test *)

FilterGenreFilters == {None, <<"H", "o", ",", " ", "b">>}
FilterGenres == {<<"H", "o">>, <<"X", "x">>}
FilterKeywords == {None, <<"x", ",", " ", "A", " ">>}
\* title and summary
FilterTexts == {<<<<"B", " ", "a">>, None>>,
                <<<<"B", "a">>, None>>,
                <<<<"B", "a">>, <<"a", " ", "b">>>>}
FilterRatingFilters == {None, <<"P", "G">>, <<"p", "g", ",", " ", "R">>}
FilterRatings == {None, <<>>, <<"R">>, <<"p", "g">>}
FilterModes == {AND, OR, None}
FilterTmdb == {NoTmdb, <<<<"1", "2", ",", "x">>, <<"X">>, 60, 10>>}
\* tmdb_api_key and the year of the entry under test
FilterLookups == {<<None, 1999>>, <<<<"a">>, NoneInt>>, <<<<"a">>, 1999>>}
FilterReplies == {TmdbRaises, TmdbNone,
                  TmdbData(12, <<>>, 70, 20),
                  TmdbData(NoneInt, <<<<"x">>>>, 55, 20),
                  TmdbData(3, <<>>, 70, 5),
                  TmdbData(NoneInt, <<>>, NoneInt, NoneInt)}
FilterOverrides == {{},
                    {MovieOverride(1, <<"X">>, 1, "whitelist")},
                    {MovieOverride(1, <<"X">>, 1, "blacklist")},
                    {MovieOverride(1, <<"Y">>, 1, "blacklist"),
                     MovieOverride(2, <<"X">>, 2, "blacklist")}}

InitFilter ==
    /\ IdleLocals
    /\ \E g \in FilterGenres, t \in FilterTexts, r \in FilterRatings, l \in FilterLookups :
           /\ movies = <<Movie(1, t[1], g, 90, l[2], r, t[2]),
                         Movie(2, <<"a">>, <<"H", "o">>, 90, NoneInt, None, None)>>
           /\ settings = <<Settings("weekly", NoneInt, l[1])>>
    /\ \E gf \in FilterGenreFilters, kw \in FilterKeywords, rf \in FilterRatingFilters,
          fm \in FilterModes, tm \in FilterTmdb :
           holiday_channels = <<HolidayChannel(<<"X">>, 1, 12, gf, kw, rf, fm, tm)>>
    /\ overrides \in FilterOverrides
    /\ \E reply \in FilterReplies : tmdb_reply = [i \in {1, 2} |-> reply]
    /\ current_month = 1
    /\ today = 0
    /\ db_settings = settings
    /\ schedules = <<>>
    /\ db_schedules = <<>>
    /\ faults = 0

NextFilter == TestChannel

SpecFilter == InitFilter /\ [][NextFilter]_vars

\* the channel under test and what the last test of it returned
tested == holiday_channels[1]
included(m) == m.id \in Range(matching_movies[1])
entries == Range(movies)

has_override(m, kind) ==
    \E o \in overrides :
        o.channel_name = tested.name /\ o.movie_id = m.id /\ o.override_type = kind

\* the entry's rating equals an item of the allow-list, letter case and the
\* blanks around the items apart
rating_listed(m) ==
    \E i \in DOMAIN split(tested.rating_filter) :
        lower(strip(split(tested.rating_filter)[i])) = lower(m.rating)

\* C2: an entry blacklisted for a themed channel is excluded by the Filter
\* Engine, whatever its genre, keyword and enrichment matches and its rating.
C2_BlacklistExcludes ==
    matching_movies # <<>> =>
        \A m \in entries : has_override(m, "blacklist") => ~included(m)

C2_Witness ==
    /\ matching_movies # <<>>
    /\ \E m \in entries :
           /\ has_override(m, "blacklist")
           /\ genre_match(tested, m) /\ keyword_match(tested, m) /\ tmdb_match(tested, m)
           /\ ~tmdb_rejects(tested, m)
           /\ rating_allows(tested, m)
           /\ ~included(m)

\* C3: an entry whitelisted (and not blacklisted) for a themed channel is
\* included even when no genre and no keyword predicate matches, its rating is
\* outside the allow-list and the enrichment minimum would exclude it.
C3_WhitelistIncludes ==
    matching_movies # <<>> =>
        \A m \in entries :
            (has_override(m, "whitelist") /\ ~has_override(m, "blacklist")) => included(m)

C3_Witness ==
    /\ matching_movies # <<>>
    /\ \E m \in entries :
           /\ has_override(m, "whitelist")
           /\ ~genre_match(tested, m) /\ ~keyword_match(tested, m)
           /\ Truthy(tested.rating_filter) /\ Truthy(m.rating) /\ ~rating_listed(m)
           /\ tmdb_rejects(tested, m)
           /\ included(m)

\* C4: an entry with no override and no enrichment match, which the rating
\* filter lets through, is included under mode 'AND' iff genre_match and
\* keyword_match both hold, and under any other mode iff one of them holds.
C4_CombinationMode ==
    matching_movies # <<>> =>
        \A m \in entries :
            ( /\ ~has_override(m, "blacklist") /\ ~has_override(m, "whitelist")
              /\ ~tmdb_match(tested, m) /\ ~tmdb_rejects(tested, m)
              /\ (Truthy(tested.rating_filter) => (~Truthy(m.rating) \/ rating_listed(m))) )
            => ( included(m) <=>
                   IF tested.filter_mode = AND
                   THEN genre_match(tested, m) /\ keyword_match(tested, m)
                   ELSE genre_match(tested, m) \/ keyword_match(tested, m) )

C4_Witness ==
    /\ matching_movies # <<>>
    /\ tested.filter_mode = AND
    /\ \E m \in entries :
           /\ ~has_override(m, "blacklist") /\ ~has_override(m, "whitelist")
           /\ ~tmdb_match(tested, m) /\ ~tmdb_rejects(tested, m)
           /\ genre_match(tested, m) /\ ~keyword_match(tested, m)
           /\ ~included(m)

\* C5: under a rating allow-list, an entry that is not overridden and passed
\* the predicate step is included iff it has no rating or its rating is in the
\* list; a rating outside the list excludes it whatever else matches.
C5_RatingFilter ==
    matching_movies # <<>> =>
        \A m \in entries :
            ( /\ Truthy(tested.rating_filter)
              /\ ~has_override(m, "blacklist") /\ ~has_override(m, "whitelist")
              /\ ~tmdb_rejects(tested, m)
              /\ \/ tmdb_match(tested, m)
                 \/ IF tested.filter_mode = AND
                    THEN genre_match(tested, m) /\ keyword_match(tested, m)
                    ELSE genre_match(tested, m) \/ keyword_match(tested, m) )
            => ( included(m) <=> (~Truthy(m.rating) \/ rating_listed(m)) )

C5_Witness ==
    /\ matching_movies # <<>>
    /\ Truthy(tested.rating_filter)
    /\ \E m \in entries :
           /\ ~has_override(m, "blacklist") /\ ~has_override(m, "whitelist")
           /\ genre_match(tested, m) /\ keyword_match(tested, m) /\ tmdb_match(tested, m)
           /\ ~tmdb_rejects(tested, m)
           /\ Truthy(m.rating) /\ ~rating_listed(m)
           /\ ~included(m)

----------------------------------------------------------------------------
(* Timeline Packer alone: generate_channel_schedule on entry lists of up to
   MaxEntries entries, over a table that may hold rows of an earlier catalog *)

MaxEntries == 2

PackDurations == {0, 200, 720, 1500}
PackDays == {0, NumDays - 1}
PackChannel == <<"H", "o">>

\* a full day of one entry, as an earlier run left it
old_row(channel_name, d) ==
    [channel |-> channel_name, movie_id |-> 9, start_time |-> format_time(0),
     end_time |-> format_time(DayMinutes), day |-> d]

PackTables == {<<>>,
               <<old_row(PackChannel, 0), old_row(PackChannel, NumDays - 1),
                 old_row(<<"X">>, 0)>>}

InitPack ==
    /\ IdleLocals
    /\ \E n \in 0..MaxEntries :
       \E durations \in [1..n -> PackDurations] :
           movies = [i \in 1..n |->
                        Movie(i, <<"B", "a">>, PackChannel, durations[i], NoneInt, None, None)]
    /\ holiday_channels = <<>>
    /\ overrides = {}
    /\ tmdb_reply = [i \in 1..(MaxEntries + 1) |-> TmdbNone]
    /\ current_month = 1
    /\ today = 0
    /\ settings = <<Settings("weekly", NoneInt, None)>>
    /\ db_settings = settings
    /\ schedules \in PackTables
    /\ db_schedules = schedules
    /\ faults = 0

NextPack ==
    \/ \E d \in PackDays : generate_channel_schedule(1, PackChannel, d)
    \/ PackLoop(1)
    \/ PackCommit(1)

SpecPack == InitPack /\ [][NextPack]_vars

\* the rows of a (channel, day) pair in a table, in insertion order
slots_of(table, channel_name, d) ==
    SelectSeq(table, LAMBDA r : r.channel = channel_name /\ r.day = d)

\* the minute an "HH:MM" text stands for
minutes_of(t) == 60 * int_of(SubSeq(t, 1, 2)) + int_of(SubSeq(t, 4, 5))

\* the rows are contiguous, non-overlapping and cover [0, 1440)
covers_day(rows) ==
    /\ rows # <<>>
    /\ rows[1].start_time = <<"0", "0", ":", "0", "0">>
    /\ rows[Len(rows)].end_time = <<"2", "4", ":", "0", "0">>
    /\ \A i \in DOMAIN rows : minutes_of(rows[i].start_time) < minutes_of(rows[i].end_time)
    /\ \A i \in 1..(Len(rows) - 1) : rows[i + 1].start_time = rows[i].end_time

\* C1: for an entry list with an entry of duration > 0, the slots that
\* generate_channel_schedule produces for its (channel, day) are contiguous and
\* non-overlapping and cover [0, 1440): the first starts at minute 0, each later
\* one starts where the previous one ends, the last ends at minute 1440.
C1_FullDayCoverage ==
    \A p \in Threads :
        /\ \A pair \in packed_pairs[p] :
               /\ covers_day(slots_of(schedules, pair[1], pair[2]))
               /\ covers_day(slots_of(db_schedules, pair[1], pair[2]))
        /\ ( /\ pc[p] = "idle" /\ outcome[p] # "none"
             /\ \E i \in DOMAIN movies : movies[i].duration > 0 )
           => <<PackChannel, day[p]>> \in packed_pairs[p]

\* a packed day of a list that mixes durations, with more slots than entries
\* and a last slot cut at minute 1440
C1_Witness ==
    /\ pc[1] = "idle"
    /\ <<PackChannel, 0>> \in packed_pairs[1]
    /\ \E i \in DOMAIN movies : movies[i].duration <= 0
    /\ \E i \in DOMAIN movies : movies[i].duration = 200
    /\ LET rows == slots_of(db_schedules, PackChannel, 0)
       IN  /\ Len(rows) = 8
           /\ minutes_of(rows[8].start_time) = 1400
           /\ covers_day(rows)

----------------------------------------------------------------------------
(* Schedule Orchestrator: a catalog of three genres, one of them with entries
   of duration 0 only, and four themed channels: X in season with one eligible
   entry, Y out of season, Z in season with its only match blacklisted, W in
   season with a whitelisted entry of duration 0 *)

Ho == <<"H", "o">>
Bb == <<"B", "b">>
Xx == <<"X", "x">>

RegenMovies ==
    <<Movie(1, <<"B", " ", "a">>, Ho, 500, NoneInt, <<"R">>, None),
      Movie(2, <<"B", "a">>, Bb, 300, NoneInt, None, None),
      Movie(3, <<"B", "a">>, Ho, 0, NoneInt, None, None),
      Movie(4, <<"a">>, Xx, 0, NoneInt, None, None)>>

RegenChannels ==
    <<HolidayChannel(<<"X">>, 11, 1, <<"h", "o">>, <<"a">>, None, AND, NoTmdb),
      HolidayChannel(<<"Y">>, 6, 7, <<"h", "o">>, None, None, OR, NoTmdb),
      HolidayChannel(<<"Z">>, 1, 12, <<"h", "o">>, <<"a">>, None, AND, NoTmdb),
      HolidayChannel(<<"W">>, 1, 12, None, None, None, AND, NoTmdb)>>

RegenOverrides ==
    {MovieOverride(1, <<"Z">>, 1, "blacklist"), MovieOverride(2, <<"W">>, 4, "whitelist")}

Cadences == {"daily", "weekly", "monthly"}

InitRegen ==
    /\ IdleLocals
    /\ movies = RegenMovies
    /\ holiday_channels = RegenChannels
    /\ overrides = RegenOverrides
    /\ tmdb_reply = [i \in 1..4 |-> TmdbNone]
    /\ current_month = 12
    /\ today = 0
    /\ settings \in {<<>>} \cup {<<Settings(f, NoneInt, None)>> : f \in Cadences}
    /\ db_settings = settings
    /\ schedules \in {<<>>, <<old_row(<<"Y">>, 0)>>}
    /\ db_schedules = schedules
    /\ faults = 0

NextRegen ==
    \/ \E f \in BOOLEAN : generate_all_schedules(1, f)
    \/ BulkDelete(1)
    \/ GenreStep(1)
    \/ GenresDone(1)
    \/ HolidayStep(1)
    \/ HolidaysDone(1)
    \/ PackLoop(1)
    \/ PackCommit(1)
    \/ Finish(1)
    \/ Tick

SpecRegen == InitRegen /\ [][NextRegen]_vars

\* the cadence threshold table
threshold_days(cadence) ==
    CASE cadence = "daily" -> 1
      [] cadence = "weekly" -> 7
      [] cadence = "monthly" -> 30

\* a last-run date is recorded and fewer days than the threshold have elapsed
not_due ==
    /\ settings # <<>>
    /\ settings[1].last_shuffle_date # NoneInt
    /\ today - settings[1].last_shuffle_date < threshold_days(settings[1].shuffle_frequency)

\* C7: a generate_all_schedules(force=False) call made when regeneration is not
\* due is a no-op: the persisted slots and the RegenerationState are after the
\* call what they were before it, and no regeneration is started.  (A step
\* taken while idle on an unchanged date is such a call whenever it leaves
\* force FALSE.)
C7_NotDueIsNoOp ==
    [][ (pc[1] = "idle" /\ not_due /\ today' = today /\ ~force'[1])
        => /\ pc'[1] = "idle"
           /\ db_schedules' = db_schedules /\ schedules' = schedules
           /\ db_settings' = db_settings /\ settings' = settings ]_vars

\* a non-forced call was skipped over a persisted schedule, the day of the run
C7_Witness ==
    /\ pc[1] = "idle" /\ outcome[1] = "skipped"
    /\ last_call[1].made /\ ~last_call[1].force
    /\ db_schedules # <<>>
    /\ db_settings[1].last_shuffle_date = today
    /\ db_settings[1].shuffle_frequency = "monthly"

\* C8: generate_all_schedules rebuilds iff it is forced, or no last-run date is
\* recorded, or the days elapsed since the last run are at least the cadence
\* threshold (daily 1, weekly 7, monthly 30); otherwise it skips.
C8_RebuildIffDue ==
    \A p \in Threads :
        last_call[p].made =>
            LET before == last_call[p].before
            IN  last_call[p].proceeded <=>
                    \/ last_call[p].force
                    \/ before = <<>>
                    \/ before[1].last_shuffle_date = NoneInt
                    \/ last_call[p].today - before[1].last_shuffle_date
                           >= threshold_days(before[1].shuffle_frequency)

\* a non-forced weekly call rebuilt on the seventh day after the last run
C8_Witness ==
    /\ last_call[1].made /\ ~last_call[1].force /\ last_call[1].proceeded
    /\ last_call[1].before # <<>>
    /\ last_call[1].before[1].shuffle_frequency = "weekly"
    /\ last_call[1].before[1].last_shuffle_date # NoneInt
    /\ last_call[1].today - last_call[1].before[1].last_shuffle_date = 7

----------------------------------------------------------------------------
(* Schedule Orchestrator with packing failures: the same catalog, forced calls,
   and up to MaxFaults exceptions raised inside the packing loop *)

MaxFaults == 1

InitFault ==
    /\ IdleLocals
    /\ movies = RegenMovies
    /\ holiday_channels = RegenChannels
    /\ overrides = RegenOverrides
    /\ tmdb_reply = [i \in 1..4 |-> TmdbNone]
    /\ current_month = 12
    /\ today = 0
    /\ settings = <<Settings("weekly", NoneInt, None)>>
    /\ db_settings = settings
    /\ schedules \in {<<>>, <<old_row(<<"Y">>, 0)>>}
    /\ db_schedules = schedules
    /\ faults = MaxFaults

NextFault ==
    \/ generate_all_schedules(1, TRUE)
    \/ BulkDelete(1)
    \/ GenreStep(1)
    \/ GenresDone(1)
    \/ HolidayStep(1)
    \/ HolidaysDone(1)
    \/ PackLoop(1)
    \/ PackCommit(1)
    \/ PackFail(1)
    \/ Finish(1)

SpecFault == InitFault /\ [][NextFault]_vars

\* the channels that have a slot in a table
channels_in(table) == {table[i].channel : i \in DOMAIN table}

Days == 0..(NumDays - 1)

\* the channels a regeneration has entries of duration > 0 for
expected_channels ==
    {m.genre : m \in {x \in entries : x.duration > 0}}
    \cup {c.name : c \in {x \in Range(holiday_channels) :
              /\ current_month \in cyclic_months(x.start_month, x.end_month)
              /\ \E m \in entries : m.duration > 0 /\ is_eligible(x, m)}}

\* C9: after a regeneration, also one in which the packing of some (channel,
\* day) failed partway through its slot insertion, the persisted slots of every
\* (channel, day) are an entire set (none, or a full day covering [0, 1440)):
\* a partially written day is never persisted.
C9_NoPartialDayPersisted ==
    (pc[1] = "idle" /\ outcome[1] = "done") =>
        \A c \in channels_in(db_schedules), d \in Days :
            LET rows == slots_of(db_schedules, c, d)
            IN  rows = <<>> \/ covers_day(rows)

----------------------------------------------------------------------------
(* Schedule Orchestrator with a failing bulk delete: forced and unforced calls
   a week after the last run, over a table that holds slots *)

AbortSettings == {<<>>, <<Settings("weekly", NoneInt, None)>>,
                  <<Settings("weekly", 0, None)>>}

InitAbort ==
    /\ IdleLocals
    /\ movies = RegenMovies
    /\ holiday_channels = RegenChannels
    /\ overrides = RegenOverrides
    /\ tmdb_reply = [i \in 1..4 |-> TmdbNone]
    /\ current_month = 12
    /\ today = WeeklyDays
    /\ settings \in AbortSettings
    /\ db_settings = settings
    /\ schedules \in {<<old_row(<<"Y">>, 0)>>, <<old_row(Ho, 0), old_row(Ho, 1)>>}
    /\ db_schedules = schedules
    /\ faults = MaxFaults

NextAbort ==
    \/ \E f \in BOOLEAN : generate_all_schedules(1, f)
    \/ BulkDelete(1)
    \/ BulkDeleteFail(1)
    \/ GenreStep(1)
    \/ GenresDone(1)
    \/ HolidayStep(1)
    \/ HolidaysDone(1)
    \/ PackLoop(1)
    \/ PackCommit(1)
    \/ Finish(1)

SpecAbort == InitAbort /\ [][NextAbort]_vars

\* C11: when the bulk delete of the existing slots fails, generate_all_schedules
\* raises to its caller with no channel packed, the persisted slots are those
\* that existed before the call, also as the session reads them, and the
\* last-run date is not updated.
C11_BulkDeleteFailureAborts ==
    [][ /\ (pc[1] = "idle" /\ pc'[1] = "bulk_delete") => db_schedules' = db_schedules
        /\ (pc[1] = "bulk_delete" /\ faults' < faults) =>
               /\ pc'[1] = "idle"
               /\ outcome'[1] = "raised"
               /\ db_schedules' = db_schedules
               /\ schedules' = db_schedules
               /\ db_settings' = db_settings
               /\ settings' = db_settings
               /\ channels_generated' = channels_generated
               /\ packed_pairs' = packed_pairs ]_vars

\* a call has raised over a table that holds slots, with a last-run date on record
C11_Witness ==
    /\ pc[1] = "idle"
    /\ outcome[1] = "raised"
    /\ db_schedules # <<>>
    /\ schedules = db_schedules
    /\ db_settings # <<>>
    /\ db_settings[1].last_shuffle_date = 0

----------------------------------------------------------------------------
(* Timeline Packer alone, continued: what a call leaves in the table *)

\* generate_channel_schedule, called on its own, has returned
returned(p) == pc[p] = "idle" /\ outcome[p] \in {"packing", "no_movies"}

\* a row that was in the table before the first call
has_old_row(table, channel_name, d) ==
    \E i \in DOMAIN table : table[i] = old_row(channel_name, d)

\* C12: generate_channel_schedule called with an entry list that is empty or
\* has no entry of duration > 0 raises no error and yields zero slots: after
\* the call the (channel, day) pair holds no slots.
C12_NoEntriesNoSlots ==
    \A p \in Threads :
        (pc[p] = "idle" /\ outcome[p] = "no_movies") =>
            /\ slots_of(schedules, PackChannel, day[p]) = <<>>
            /\ slots_of(db_schedules, PackChannel, day[p]) = <<>>

\* C13: generate_channel_schedule for (channel c, day d) replaces only that
\* pair's slots: once it has returned no slot that the pair had before the call
\* remains, and no step of it changes the slots of another (channel, day).
C13_ReplacesOnlyThePair ==
    [][ /\ \A c \in channels_in(schedules) \cup channels_in(schedules'), d \in Days :
               <<c, d>> # <<PackChannel, day'[1]>> =>
                   /\ slots_of(schedules', c, d) = slots_of(schedules, c, d)
                   /\ slots_of(db_schedules', c, d) = slots_of(db_schedules, c, d)
        /\ (pc'[1] = "idle" /\ outcome'[1] \in {"packing", "no_movies"}) =>
               /\ ~has_old_row(schedules', PackChannel, day'[1])
               /\ ~has_old_row(db_schedules', PackChannel, day'[1]) ]_vars

----------------------------------------------------------------------------
(* Schedule reads: get_current_playing *)

\* the characters of the texts compared, in code-point order: ' ' < '0' < ... <
\* '9' < ':' < 'A' < ... < 'X' < 'a' < ... < 'x'
CharOrder == <<" ">> \o Digits \o <<":">> \o UpperCase \o LowerCase

char_code(c) == CHOOSE i \in DOMAIN CharOrder : CharOrder[i] = c

\* a < b for strings
RECURSIVE str_lt(_, _)
str_lt(a, b) ==
    IF b = <<>> THEN FALSE
    ELSE IF a = <<>> THEN TRUE
    ELSE IF Head(a) = Head(b) THEN str_lt(Tail(a), Tail(b))
    ELSE char_code(Head(a)) < char_code(Head(b))

str_le(a, b) == a = b \/ str_lt(a, b)

RECURSIVE insert_row(_, _)
insert_row(sorted, r) ==
    IF sorted = <<>> THEN <<r>>
    ELSE IF str_lt(r.start_time, Head(sorted).start_time) THEN <<r>> \o sorted
    ELSE <<Head(sorted)>> \o insert_row(Tail(sorted), r)

\* order_by(Schedule.start_time); rows of equal start_time stay in table order
RECURSIVE order_by_start_time(_)
order_by_start_time(rows) ==
    IF rows = <<>> THEN <<>>
    ELSE insert_row(order_by_start_time(SubSeq(rows, 1, Len(rows) - 1)), rows[Len(rows)])

\* the query of lines 451-454
day_schedules(channel, current_day) ==
    order_by_start_time(
        SelectSeq(schedules, LAMBDA r : r.channel = channel /\ r.day = current_day))

\* lines 456-460 with the loop left out: the first slot of the day, or None
first_of_day(rows, now_text) ==
    IF rows # <<>> THEN <<rows[1]>> ELSE <<>>

\* lines 456-460: the first slot with start_time <= current_time < end_time,
\* else the first slot of the day, else None (the empty sequence here)
first_containing(rows, now_text) ==
    LET hits == {i \in DOMAIN rows :
                    /\ str_le(rows[i].start_time, now_text)
                    /\ str_lt(now_text, rows[i].end_time)}
    IN  IF hits # {}
        THEN <<rows[CHOOSE i \in hits : \A j \in hits : i <= j]>>
        ELSE IF rows # <<>> THEN <<rows[1]>> ELSE <<>>

\* get_current_playing(channel) at hour:minute of a weekday
get_current_playing(channel, hour, minute, weekday) ==
    /\ current' = <<[channel |-> channel, hour |-> hour, minute |-> minute,
                     day |-> weekday,
                     result |-> first_containing(day_schedules(channel, weekday),
                                                 format_time(60 * hour + minute))]>>
    /\ UNCHANGED <<requests, channels, movies, holiday_channels, overrides, tmdb_reply, number_call,
                   cache, touched, cache_call,
                   current_month, today, settings, db_settings, schedules,
                   db_schedules, pc, force, day, gi, active_holidays, hi, ret,
                   pack_channel, valid_movies, current_time, movie_index,
                   channels_generated, errors_encountered, faults, outcome,
                   matching_movies, active, packed_pairs, failed_pairs, last_call>>

\* one genre of two entries, packed for the first and the last day and read at
\* any moment, also while a day is being packed
PlayingMovies == <<Movie(1, <<"B", "a">>, PackChannel, 700, NoneInt, None, None),
                   Movie(2, <<"a">>, PackChannel, 300, NoneInt, None, None)>>
PlayingHours == {0, 11, 23}
PlayingMinutes == {39, 40}
PlayingChannels == {PackChannel, <<"X">>}

InitPlaying ==
    /\ IdleLocals
    /\ movies = PlayingMovies
    /\ holiday_channels = <<>>
    /\ overrides = {}
    /\ tmdb_reply = [i \in 1..2 |-> TmdbNone]
    /\ current_month = 1
    /\ today = 0
    /\ settings = <<Settings("weekly", NoneInt, None)>>
    /\ db_settings = settings
    /\ schedules = <<old_row(<<"X">>, 0)>>
    /\ db_schedules = schedules
    /\ faults = 0

NextPlaying ==
    \/ \E d \in PackDays : generate_channel_schedule(1, PackChannel, d)
    \/ PackLoop(1)
    \/ PackCommit(1)
    \/ \E channel \in PlayingChannels, hour \in PlayingHours,
          minute \in PlayingMinutes, weekday \in PackDays :
           get_current_playing(channel, hour, minute, weekday)

SpecPlaying == InitPlaying /\ [][NextPlaying]_vars

\* the slots of the asked (channel, day), and those whose [start, end) holds
\* the asked minute of the day
asked_rows(q) == {r \in Range(schedules) : r.channel = q.channel /\ r.day = q.day}
asked_hits(q) ==
    {r \in asked_rows(q) :
        /\ minutes_of(r.start_time) <= 60 * q.hour + q.minute
        /\ 60 * q.hour + q.minute < minutes_of(r.end_time)}

\* C14: get_current_playing returns, among the channel's slots of the current
\* day of the week, the slot whose [start, end) contains the current time of
\* day when there is one; otherwise the first slot of that day when the day has
\* a slot; otherwise None.
C14_CurrentProgram ==
    [][ current' # current =>
            LET q == current'[1]
            IN  IF asked_hits(q) # {}
                THEN q.result # <<>> /\ q.result[1] \in asked_hits(q)
                ELSE IF asked_rows(q) # {}
                THEN /\ q.result # <<>>
                     /\ q.result[1] \in asked_rows(q)
                     /\ \A r \in asked_rows(q) :
                            minutes_of(q.result[1].start_time) <= minutes_of(r.start_time)
                ELSE q.result = <<>> ]_vars

\* the slot that holds the asked time was returned and is not the day's first
C14_Witness ==
    /\ current # <<>>
    /\ current[1].result # <<>>
    /\ current[1].result[1] \in asked_hits(current[1])
    /\ current[1].result[1].start_time # format_time(0)
    /\ current[1].hour = 11 /\ current[1].minute = 40

----------------------------------------------------------------------------
(* Channel Directory: get_all_channels *)

RECURSIVE insert_name(_, _)
insert_name(sorted_names, name) ==
    IF sorted_names = <<>> THEN <<name>>
    ELSE IF str_lt(name, Head(sorted_names)) THEN <<name>> \o sorted_names
    ELSE <<Head(sorted_names)>> \o insert_name(Tail(sorted_names), name)

\* sorted(names)
RECURSIVE sorted(_)
sorted(names) ==
    IF names = <<>> THEN <<>>
    ELSE insert_name(sorted(SubSeq(names, 1, Len(names) - 1)), names[Len(names)])

\* lines 471-478: the distinct genres, then the name of every themed channel in
\* season appended, then sorted
get_all_channels ==
    LET genre_channels  == genres_of(movies)
        active_holidays_ == get_active_holiday_channels
    IN  sorted(genre_channels
               \o [i \in DOMAIN active_holidays_ |-> active_holidays_[i].name])

GetAllChannels ==
    /\ channels' = <<get_all_channels>>
    /\ UNCHANGED <<requests, current, movies, holiday_channels, overrides, tmdb_reply, number_call,
                   cache, touched, cache_call,
                   current_month, today, settings, db_settings, schedules,
                   db_schedules, pc, force, day, gi, active_holidays, hi, ret,
                   pack_channel, valid_movies, current_time, movie_index,
                   channels_generated, errors_encountered, faults, outcome,
                   matching_movies, active, packed_pairs, failed_pairs, last_call>>

\* a catalog of three entries and two themed channels; the admin form accepts
\* any name no other themed channel has, a genre's name included
ChannelGenres == {Ho, Bb, <<"X">>}
ChannelNames == {<<"X">>, <<"A">>}
ChannelSeasons == {<<1, 12>>, <<11, 1>>, <<6, 7>>}
ChannelMonths == {1, 6, 12}

InitChannels ==
    /\ IdleLocals
    /\ \E g \in [1..3 -> ChannelGenres] :
           movies = [i \in 1..3 |->
                        Movie(i, <<"a">>, g[i], 100, NoneInt, None, None)]
    /\ \E name \in ChannelNames, s1 \in ChannelSeasons, s2 \in ChannelSeasons :
           holiday_channels =
               <<HolidayChannel(name, s1[1], s1[2], None, None, None, OR, NoTmdb),
                 HolidayChannel(<<"h", "o">>, s2[1], s2[2], None, None, None, OR, NoTmdb)>>
    /\ overrides = {}
    /\ tmdb_reply = [i \in 1..3 |-> TmdbNone]
    /\ current_month \in ChannelMonths
    /\ today = 0
    /\ settings = <<Settings("weekly", NoneInt, None)>>
    /\ db_settings = settings
    /\ schedules = <<>>
    /\ db_schedules = schedules
    /\ faults = 0

NextChannels == GetAllChannels

SpecChannels == InitChannels /\ [][NextChannels]_vars

\* the names get_all_channels is to return
channel_names ==
    {m.genre : m \in Range(movies)}
    \cup {c.name : c \in {x \in Range(holiday_channels) :
              current_month \in cyclic_months(x.start_month, x.end_month)}}

\* C15: get_all_channels returns the sorted union of the distinct catalog genres
\* and the names of the themed channels in season: every such name once, no
\* other name, in ascending order.
C15_AllChannelNames ==
    channels # <<>> =>
        LET names == channels[1]
        IN  /\ Range(names) = channel_names
            /\ Len(names) = Cardinality(channel_names)
            /\ \A i \in 1..(Len(names) - 1) : str_lt(names[i], names[i + 1])

----------------------------------------------------------------------------
(* Override handlers of src/app.py: add_channel_override and
   delete_channel_override, each request with a session of its own *)

MaxOverrideId == 3

OverrideTypes == {"whitelist", "blacklist"}

\* the rows of a (channel name, movie id) pair
override_rows(channel_name, movie_id) ==
    {o \in overrides : o.channel_name = channel_name /\ o.movie_id = movie_id}

\* the id the table gives to the next row
next_override_id ==
    IF overrides = {} THEN 1
    ELSE 1 + CHOOSE n \in {o.id : o \in overrides} : \A o \in overrides : o.id <= n

\* add_channel_override up to the query of lines 2044-2047: the channel and the
\* movie exist, the override type is valid, the pair's row is looked up
AddOverrideCheck(p, ci, movie_id, override_type) ==
    /\ requests[p].at = "none"
    /\ pc[p] = "idle"
    /\ ci \in DOMAIN holiday_channels
    /\ \E i \in DOMAIN movies : movies[i].id = movie_id
    /\ override_type \in OverrideTypes
    /\ next_override_id + Cardinality({q \in Threads : requests[q].at = "add"})
           <= MaxOverrideId
    /\ LET found == override_rows(holiday_channels[ci].name, movie_id)
       IN  \E e \in (IF found = {} THEN {0} ELSE {o.id : o \in found}) :
               requests' = [requests EXCEPT ![p] =
                   [at |-> "add", channel_name |-> holiday_channels[ci].name,
                    movie_id |-> movie_id, override_type |-> override_type,
                    existing |-> e]]
    /\ UNCHANGED <<current, channels, movies, holiday_channels, overrides, tmdb_reply, number_call,
                   cache, touched, cache_call,
                   current_month, today, settings, db_settings, schedules,
                   db_schedules, pc, force, day, gi, active_holidays, hi, ret,
                   pack_channel, valid_movies, current_time, movie_index,
                   channels_generated, errors_encountered, faults, outcome,
                   matching_movies, active, packed_pairs, failed_pairs, last_call>>

\* the request ends with an error answer: lines 2072-2075
override_refused(p) ==
    /\ requests' = [requests EXCEPT ![p] = NoRequest]
    /\ UNCHANGED <<current, channels, movies, holiday_channels, overrides, tmdb_reply, number_call,
                   cache, touched, cache_call,
                   current_month, today, settings, db_settings, schedules,
                   db_schedules, pc, force, day, gi, active_holidays, hi, ret,
                   pack_channel, valid_movies, current_time, movie_index,
                   channels_generated, errors_encountered, faults, outcome,
                   matching_movies, active, packed_pairs, failed_pairs, last_call>>

\* the write is committed and line 2063 calls generate_all_schedules(force=True)
override_written(p, table) ==
    /\ overrides' = table
    /\ requests' = [requests EXCEPT ![p] = NoRequest]
    /\ enter_generate_all_schedules(p, TRUE)

\* lines 2049-2061 with a table that has no unique constraint
AddOverrideWriteNoConstraint(p) ==
    /\ requests[p].at = "add"
    /\ LET r == requests[p]
       IN  IF r.existing # 0
           THEN IF \E o \in overrides : o.id = r.existing
                THEN override_written(p,
                         {IF o.id = r.existing
                          THEN [o EXCEPT !.override_type = r.override_type]
                          ELSE o : o \in overrides})
                ELSE override_refused(p)
           ELSE override_written(p, overrides \cup
                    {MovieOverride(next_override_id, r.channel_name, r.movie_id,
                                   r.override_type)})

\* lines 2049-2063: the row found is given the new type, or a new row is added;
\* the commit fails when the row found is gone, or when the pair has a row by
\* now (the unique constraint of src/models.py line 82)
AddOverrideWrite(p) ==
    /\ requests[p].at = "add"
    /\ LET r == requests[p]
       IN  IF r.existing # 0
           THEN IF \E o \in overrides : o.id = r.existing
                THEN override_written(p,
                         {IF o.id = r.existing
                          THEN [o EXCEPT !.override_type = r.override_type]
                          ELSE o : o \in overrides})
                ELSE override_refused(p)
           ELSE IF override_rows(r.channel_name, r.movie_id) # {}
                THEN override_refused(p)
                ELSE override_written(p, overrides \cup
                         {MovieOverride(next_override_id, r.channel_name, r.movie_id,
                                        r.override_type)})

\* delete_channel_override for a row that is found: deleted, committed, and the
\* schedules regenerated
DeleteOverride(p, ci, override_id) ==
    /\ requests[p].at = "none"
    /\ pc[p] = "idle"
    /\ ci \in DOMAIN holiday_channels
    /\ \E o \in overrides :
           /\ o.id = override_id
           /\ o.channel_name = holiday_channels[ci].name
           /\ overrides' = overrides \ {o}
    /\ UNCHANGED requests
    /\ enter_generate_all_schedules(p, TRUE)

\* two handler threads, one themed channel and two entries of duration 0, so
\* that the regeneration each request ends with packs nothing
OverrideMovies == <<Movie(1, <<"a">>, Ho, 0, NoneInt, None, None),
                    Movie(2, <<"a">>, Ho, 0, NoneInt, None, None)>>

InitOverrides ==
    /\ IdleLocals
    /\ movies = OverrideMovies
    /\ holiday_channels = <<HolidayChannel(<<"X">>, 1, 12, None, None, None, OR, NoTmdb)>>
    /\ overrides \in {{}, {MovieOverride(1, <<"X">>, 1, "whitelist")}}
    /\ tmdb_reply = [i \in 1..2 |-> TmdbNone]
    /\ current_month = 1
    /\ today = 0
    /\ settings = <<Settings("weekly", 0, None)>>
    /\ db_settings = settings
    /\ schedules = <<>>
    /\ db_schedules = schedules
    /\ faults = 0

NextOverrides ==
    \E p \in Threads :
        \/ \E movie_id \in 1..2, override_type \in OverrideTypes :
               AddOverrideCheck(p, 1, movie_id, override_type)
        \/ AddOverrideWrite(p)
        \/ \E override_id \in 1..MaxOverrideId : DeleteOverride(p, 1, override_id)
        \/ BulkDelete(p)
        \/ GenreStep(p)
        \/ GenresDone(p)
        \/ HolidayStep(p)
        \/ HolidaysDone(p)
        \/ Finish(p)

SpecOverrides == InitOverrides /\ [][NextOverrides]_vars

\* at most one row per (channel name, movie id)
one_per_pair(table) ==
    \A o1 \in table, o2 \in table :
        (o1.channel_name = o2.channel_name /\ o1.movie_id = o2.movie_id) => o1 = o2

\* C16: after any sequence of add-override and delete-override operations there
\* is at most one MovieOverride per (channel name, entry id), so no entry is
\* whitelisted and blacklisted for the same channel at once; an add for a pair
\* that has an override changes its kind and creates no second record.
C16_OneOverridePerPair ==
    [][ /\ one_per_pair(overrides')
        /\ \A p \in Threads :
               (/\ requests[p].at = "add"
                /\ pc'[p] = "bulk_delete"
                /\ override_rows(requests[p].channel_name, requests[p].movie_id) # {})
               => /\ Cardinality(overrides') = Cardinality(overrides)
                  /\ \A o \in override_rows(requests[p].channel_name,
                                            requests[p].movie_id)' :
                         o.override_type = requests[p].override_type ]_vars

\* a request found no row for its pair and is about to add one, and the pair
\* has a row by now
C16_Witness ==
    /\ requests[2].at = "add"
    /\ requests[2].existing = 0
    /\ override_rows(requests[2].channel_name, requests[2].movie_id) # {}
    /\ Cardinality(overrides) = 2

----------------------------------------------------------------------------
(* Schedule Orchestrator with packing failures, continued *)

----------------------------------------------------------------------------
(* Schedule Orchestrator, forced rebuilds: the catalog and the themed channels
   as before, the first themed channel named X or named like the genre Bb, over
   a table that is empty or holds slots of a themed channel out of season and
   of a genre the catalog no longer has *)

RebuildChannels == {RegenChannels, [RegenChannels EXCEPT ![1].name = Bb]}

RebuildTables == {<<>>, <<old_row(<<"Y">>, 0), old_row(<<"G">>, 3)>>}

InitRebuild ==
    /\ IdleLocals
    /\ movies = RegenMovies
    /\ holiday_channels \in RebuildChannels
    /\ overrides = RegenOverrides
    /\ tmdb_reply = [i \in 1..4 |-> TmdbNone]
    /\ current_month = 12
    /\ today = 0
    /\ settings = <<Settings("weekly", NoneInt, None)>>
    /\ db_settings = settings
    /\ schedules \in RebuildTables
    /\ db_schedules = schedules
    /\ faults = 0

NextRebuild ==
    \/ generate_all_schedules(1, TRUE)
    \/ BulkDelete(1)
    \/ GenreStep(1)
    \/ GenresDone(1)
    \/ HolidayStep(1)
    \/ HolidaysDone(1)
    \/ PackLoop(1)
    \/ PackCommit(1)
    \/ Finish(1)

SpecRebuild == InitRebuild /\ [][NextRebuild]_vars

\* a regeneration has completed without failures
completed(p) == pc[p] = "idle" /\ outcome[p] = "done" /\ errors_encountered[p] = 0

\* C18: after a regeneration that completes without failures, slots exist for
\* exactly these (channel, day) pairs: every day 0..6 of every genre that has an
\* entry of duration > 0 and of every themed channel in season whose eligible
\* set has an entry of duration > 0; no slot remains for another channel.
C18_SlotsForExpectedPairs ==
    \A p \in Threads :
        completed(p) =>
            /\ schedules = db_schedules
            /\ \A c \in channels_in(db_schedules) \cup expected_channels, d \in Days :
                   slots_of(db_schedules, c, d) # <<>> <=> c \in expected_channels

\* a rebuild over a table that held slots of channels no longer expected
C18_Witness ==
    /\ completed(1)
    /\ slots_of(db_schedules, Ho, 0) # <<>>
    /\ slots_of(db_schedules, Bb, NumDays - 1) # <<>>
    /\ slots_of(db_schedules, <<"X">>, 3) # <<>>
    /\ channels_in(db_schedules) = {Ho, Bb, <<"X">>}

\* the entry a slot references
movie_of(movie_id) == CHOOSE m \in entries : m.id = movie_id

\* C19: after a regeneration that completes without failures every slot
\* references an entry eligible for its channel: a slot of a genre channel an
\* entry whose genre is the channel's name, a slot of a themed channel an entry
\* of the Filter Engine's eligible set for it, never one blacklisted for it.
C19_SlotsReferenceEligible ==
    \A p \in Threads :
        completed(p) =>
            \A i \in DOMAIN db_schedules :
                LET r == db_schedules[i]
                    m == movie_of(r.movie_id)
                IN  /\ r.channel \in {e.genre : e \in entries} => m.genre = r.channel
                    /\ \A x \in Range(holiday_channels) :
                           x.name = r.channel =>
                               /\ is_eligible(x, m)
                               /\ m.id \notin blacklist_ids(x)
                    /\ \/ r.channel \in {e.genre : e \in entries}
                       \/ \E x \in Range(holiday_channels) : x.name = r.channel

----------------------------------------------------------------------------
(* Timeline Packer alone, continued: the length of the slots *)

\* the minutes a slot lasts
slot_length(r) == minutes_of(r.end_time) - minutes_of(r.start_time)

\* C20: within one packed (channel, day) only the last slot may be truncated:
\* every slot but the last lasts as long as its entry, the last lasts at most
\* as long as its entry and ends at minute 1440, and no slot ends beyond 1440.
C20_OnlyLastSlotTruncated ==
    \A p \in Threads :
        (pc[p] = "idle" /\ outcome[p] = "packing") =>
            LET rows == slots_of(db_schedules, PackChannel, day[p])
            IN  /\ rows # <<>>
                /\ \A i \in DOMAIN rows : minutes_of(rows[i].end_time) <= DayMinutes
                /\ \A i \in 1..(Len(rows) - 1) :
                       slot_length(rows[i]) = movie_of(rows[i].movie_id).duration
                /\ slot_length(rows[Len(rows)]) <= movie_of(rows[Len(rows)].movie_id).duration
                /\ minutes_of(rows[Len(rows)].end_time) = DayMinutes

\* a packed day of several slots whose last slot is cut short at 24:00
C20_Witness ==
    /\ pc[1] = "idle" /\ outcome[1] = "packing"
    /\ LET rows == slots_of(db_schedules, PackChannel, day[1])
       IN  /\ Len(rows) >= 2
           /\ slot_length(rows[1]) = movie_of(rows[1].movie_id).duration
           /\ slot_length(rows[Len(rows)]) < movie_of(rows[Len(rows)].movie_id).duration
           /\ rows[Len(rows)].end_time = <<"2", "4", ":", "0", "0">>

----------------------------------------------------------------------------
(* Timeline Packer alone, continued: the order of the entries *)

\* the slots of the day that reference an entry
slots_with(rows, movie_id) == {i \in DOMAIN rows : rows[i].movie_id = movie_id}

\* C21: the packer takes the entries in shuffled order round-robin: the k-th
\* slot of a (channel, day) references the entry at position k mod n of the
\* shuffled list of the n entries of duration > 0, so within a day the numbers
\* of slots of any two of them differ by at most one.
C21_RoundRobin ==
    \A p \in Threads :
        (pc[p] = "idle" /\ outcome[p] = "packing") =>
            LET rows  == slots_of(db_schedules, PackChannel, day[p])
                order == valid_movies[p]
                n     == Len(order)
            IN  /\ {order[i] : i \in DOMAIN order} = {m \in entries : m.duration > 0}
                /\ n = Cardinality({m \in entries : m.duration > 0})
                /\ \A k \in DOMAIN rows : rows[k].movie_id = order[((k - 1) % n) + 1].id
                /\ \A i \in DOMAIN order, j \in DOMAIN order :
                       Cardinality(slots_with(rows, order[i].id))
                           <= Cardinality(slots_with(rows, order[j].id)) + 1

\* a day packed from two entries: the third slot is the first entry again
C21_Witness ==
    /\ pc[1] = "idle" /\ outcome[1] = "packing"
    /\ Len(valid_movies[1]) = 2
    /\ LET rows == slots_of(db_schedules, PackChannel, day[1])
       IN  /\ Len(rows) >= 3
           /\ rows[1].movie_id # rows[2].movie_id
           /\ rows[3].movie_id = rows[1].movie_id

\* the slots of a table that reference an entry of the catalog
catalog_slots(table) ==
    {r \in Range(table) : \E m \in entries : m.id = r.movie_id}

\* C22: no slot ever references an entry of duration <= 0, and every slot has
\* start < end: of a list that mixes positive and non-positive durations only
\* the entries of positive duration are scheduled.
C22_OnlyPositiveDurations ==
    /\ \A r \in catalog_slots(schedules) \cup catalog_slots(db_schedules) :
           movie_of(r.movie_id).duration > 0
    /\ \A r \in Range(schedules) \cup Range(db_schedules) :
           minutes_of(r.start_time) < minutes_of(r.end_time)

\* a day packed from a list that holds an entry of duration 0 and one of
\* positive duration
C22_Witness ==
    /\ pc[1] = "idle" /\ outcome[1] = "packing"
    /\ \E m \in entries : m.duration <= 0
    /\ \E m \in entries : m.duration > 0
    /\ covers_day(slots_of(db_schedules, PackChannel, day[1]))
    /\ \A r \in catalog_slots(db_schedules) : movie_of(r.movie_id).duration > 0

----------------------------------------------------------------------------
(* Timeline Packer alone, its loop running to the end: an entry of a single
   minute (the slowest walk of the cursor), a list with an entry of duration 0,
   a list of two entries; a call that has started keeps running *)

InitSlow ==
    /\ IdleLocals
    /\ \E durations \in {<<1>>, <<0, 700>>, <<700, 1>>} :
           movies = [i \in DOMAIN durations |->
                        Movie(i, <<"B", "a">>, PackChannel, durations[i], NoneInt, None, None)]
    /\ holiday_channels = <<>>
    /\ overrides = {}
    /\ tmdb_reply = [i \in 1..2 |-> TmdbNone]
    /\ current_month = 1
    /\ today = 0
    /\ settings = <<Settings("weekly", NoneInt, None)>>
    /\ db_settings = settings
    /\ schedules = <<>>
    /\ db_schedules = schedules
    /\ faults = 0

NextSlow ==
    \/ generate_channel_schedule(1, PackChannel, 0)
    \/ PackLoop(1)
    \/ PackCommit(1)

SpecSlow ==
    /\ InitSlow
    /\ [][NextSlow]_vars
    /\ WF_vars(PackLoop(1))
    /\ WF_vars(PackCommit(1))

\* C23: for an entry list with an entry of duration > 0 the packing loop of
\* generate_channel_schedule terminates with the cursor at exactly 1440, after
\* at most 1440 slots: the cursor never passes 1440 and every slot moves it
\* on, so there are never more slots than the cursor counts minutes.
C23_PackingTerminates ==
    /\ [](\A p \in Threads :
             /\ current_time[p] <= DayMinutes
             /\ movie_index[p] <= DayMinutes
             /\ pc[p] = "pack_loop" =>
                    Len(slots_of(schedules, PackChannel, day[p])) <= current_time[p])
    /\ (pc[1] = "pack_loop") ~> (pc[1] = "idle" /\ current_time[1] = DayMinutes)

\* the cursor has reached 1440 one minute at a time: a day of 1440 slots
C23_Witness ==
    /\ pc[1] = "idle" /\ outcome[1] = "packing"
    /\ current_time[1] = DayMinutes
    /\ Len(slots_of(db_schedules, PackChannel, 0)) = DayMinutes

----------------------------------------------------------------------------
(* Filter Engine with the enrichment client: one themed channel X and two
   entries, the entry under test (id 1) and a second entry with a year (id 2),
   each with its own answer of the enrichment service *)

\* vote_average and popularity in tenths; 0 is the score of a title nobody
\* has voted for
EnrichReplies == {TmdbRaises, TmdbNone,
                  TmdbData(12, <<>>, 70, 20),
                  TmdbData(NoneInt, <<<<"x">>>>, 55, 20),
                  TmdbData(3, <<>>, 70, 5),
                  TmdbData(12, <<<<"x">>>>, 0, 20)}

\* l: tmdb_api_key and the year of the entry under test; tm: the channel's
\* tmdb_collection_ids, tmdb_keywords, min_rating and min_popularity (tenths)
InitEnrich ==
    /\ IdleLocals
    /\ \E g \in {<<"H", "o">>, <<"X", "x">>}, t \in {<<"B", " ", "a">>, <<"B", "a">>},
          r \in {None, <<"R">>},
          l \in {<<None, 1999>>, <<<<"a">>, NoneInt>>, <<<<"a">>, 1999>>} :
           /\ movies = <<Movie(1, t, g, 90, l[2], r, None),
                         Movie(2, <<"a">>, <<"X", "x">>, 90, 2001, None, None)>>
           /\ settings = <<Settings("weekly", NoneInt, l[1])>>
    /\ \E gf \in {None, <<"h", "o">>}, kw \in {None, <<"a">>}, rf \in {None, <<"P", "G">>},
          fm \in {AND, OR}, tm \in {NoTmdb, <<<<"1", "2", ",", "x">>, <<"X">>, 60, 10>>} :
           holiday_channels = <<HolidayChannel(<<"X">>, 1, 12, gf, kw, rf, fm, tm)>>
    /\ overrides \in {{}, {MovieOverride(1, <<"X">>, 1, "whitelist")}}
    /\ tmdb_reply \in [{1, 2} -> EnrichReplies]
    /\ current_month = 1
    /\ today = 0
    /\ db_settings = settings
    /\ schedules = <<>>
    /\ db_schedules = <<>>
    /\ faults = 0

NextEnrich == TestChannel

SpecEnrich == InitEnrich /\ [][NextEnrich]_vars

\* the lookup for the entry is made and returns data
looked_up(m) ==
    /\ tmdb_configured /\ m.year # NoneInt /\ m.year # 0
    /\ tmdb_reply[m.id].kind = "data"

\* the lookup for the entry is made and fails
lookup_fails(m) ==
    /\ tmdb_configured /\ m.year # NoneInt /\ m.year # 0
    /\ tmdb_reply[m.id].kind \in {"raise", "none"}

\* the entry's external score or popularity is below the channel's minimum
below_minimums(m) ==
    \/ /\ tested.min_rating # NoneInt /\ tmdb_reply[m.id].vote_average # NoneInt
       /\ tmdb_reply[m.id].vote_average < tested.min_rating
    \/ /\ tested.min_popularity # NoneInt /\ tmdb_reply[m.id].popularity # NoneInt
       /\ tmdb_reply[m.id].popularity < tested.min_popularity

\* the entry's collection id is in the channel's collection-id list, or one of
\* its tags is in the channel's keyword list
enrichment_hit(m) ==
    /\ looked_up(m)
    /\ \/ tmdb_reply[m.id].collection_id \in parse_collection_ids(tested.tmdb_collection_ids)
       \/ \E t \in Range(tmdb_reply[m.id].tmdb_keywords) :
              t \in Range(parse_list(tested.tmdb_keywords))

no_override(m) == ~has_override(m, "blacklist") /\ ~has_override(m, "whitelist")

mode_match(m) ==
    IF tested.filter_mode = AND
    THEN genre_match(tested, m) /\ keyword_match(tested, m)
    ELSE genre_match(tested, m) \/ keyword_match(tested, m)

rating_ok(m) ==
    Truthy(tested.rating_filter) => (~Truthy(m.rating) \/ rating_listed(m))

\* C24: with an enrichment client, a year and a lookup that returns data, an
\* entry with no override whose external score is below the channel's minimum
\* score, or whose popularity is below the minimum popularity, is excluded,
\* even when its genre, keyword and enrichment predicates all match.
C24_MinimumsExclude ==
    matching_movies # <<>> =>
        \A m \in entries :
            (no_override(m) /\ looked_up(m) /\ below_minimums(m)) => ~included(m)

\* C25: an entry with no override and a true enrichment match that is not
\* below the minimums passes the predicate step in both modes (only the rating
\* filter then decides), even with no genre and no keyword match; and an entry
\* with no enrichment match that the mode and the rating filter accept is
\* included all the same.
C25_EnrichmentOrIn ==
    matching_movies # <<>> =>
        \A m \in entries :
            /\ (no_override(m) /\ enrichment_hit(m) /\ ~below_minimums(m))
                  => (included(m) <=> rating_ok(m))
            /\ (no_override(m) /\ ~enrichment_hit(m) /\ ~(looked_up(m) /\ below_minimums(m))
                  /\ mode_match(m) /\ rating_ok(m))
                  => included(m)

\* under mode AND, an entry matching neither genre nor keyword is included on
\* its enrichment match alone
C25_Witness ==
    /\ matching_movies # <<>>
    /\ tested.filter_mode = AND
    /\ \E m \in entries :
           /\ no_override(m) /\ enrichment_hit(m) /\ ~below_minimums(m)
           /\ ~genre_match(tested, m) /\ ~keyword_match(tested, m)
           /\ included(m)

\* C26: when the lookup for an entry raises or returns nothing, the test of
\* the channel still returns, the entry is decided by the mode and the rating
\* filter alone, as with no client, and every other entry is decided by its
\* own overrides, predicates and answer.
C26_LookupFailureDegrades ==
    matching_movies # <<>> =>
        \A m \in entries :
            /\ (no_override(m) /\ lookup_fails(m))
                  => (included(m) <=> (mode_match(m) /\ rating_ok(m)))
            /\ (\E o \in entries : o # m /\ lookup_fails(o))
                  => (included(m) <=> is_eligible(tested, m))

\* the lookup of entry 1 raises: entry 1 is included on its genre, entry 2 on
\* its own enrichment match
C26_Witness ==
    /\ matching_movies # <<>>
    /\ tmdb_configured /\ TruthyNum(movies[1].year) /\ tmdb_reply[1].kind = "raise"
    /\ no_override(movies[1]) /\ genre_match(tested, movies[1])
    /\ included(movies[1])
    /\ enrichment_hit(movies[2]) /\ ~mode_match(movies[2])
    /\ included(movies[2])

----------------------------------------------------------------------------
(* Readers of the shared ScheduleGenerator while a day is being packed: the
   queries go through the session the packer writes to *)

\* get_channel_schedule(channel, day): the rows of the pair by start_time
get_channel_schedule(channel, weekday) ==
    /\ current' = <<[channel |-> channel, day |-> weekday,
                     result |-> day_schedules(channel, weekday)]>>
    /\ UNCHANGED <<requests, channels, movies, holiday_channels, overrides, tmdb_reply, number_call,
                   cache, touched, cache_call,
                   current_month, today, settings, db_settings, schedules,
                   db_schedules, pc, force, day, gi, active_holidays, hi, ret,
                   pack_channel, valid_movies, current_time, movie_index,
                   channels_generated, errors_encountered, faults, outcome,
                   matching_movies, active, packed_pairs, failed_pairs, last_call>>

NextRead ==
    \/ \E d \in PackDays : generate_channel_schedule(1, PackChannel, d)
    \/ PackLoop(1)
    \/ PackCommit(1)
    \/ \E weekday \in PackDays : get_channel_schedule(PackChannel, weekday)
    \/ \E hour \in {0, 23}, weekday \in PackDays :
           get_current_playing(PackChannel, hour, 40, weekday)

SpecRead == InitPlaying /\ [][NextRead]_vars

\* C27: a query interleaved with a regeneration observes, for its (channel,
\* day), no slots or a complete set covering [0, 1440): get_channel_schedule
\* returns no rows or a cover of the day, and get_current_playing returns None
\* or the slot that holds the asked time of day, as on a complete day.
C27_ReadersSeeWholeDays ==
    \A i \in DOMAIN current :
        LET q == current[i]
        IN  IF "hour" \in DOMAIN q
            THEN \/ q.result = <<>>
                 \/ /\ minutes_of(q.result[1].start_time) <= 60 * q.hour + q.minute
                    /\ 60 * q.hour + q.minute < minutes_of(q.result[1].end_time)
            ELSE q.result = <<>> \/ covers_day(q.result)

----------------------------------------------------------------------------
(* Two request handlers rebuilding at once on the shared ScheduleGenerator:
   one genre of one entry, both calls forced; the second handler enters while
   the first is packing its last day, and from there their steps interleave *)

InitRace ==
    /\ IdleLocals
    /\ movies = <<Movie(1, <<"B", "a">>, PackChannel, 1500, NoneInt, None, None)>>
    /\ holiday_channels = <<>>
    /\ overrides = {}
    /\ tmdb_reply = [i \in 1..1 |-> TmdbNone]
    /\ current_month = 1
    /\ today = 0
    /\ settings = <<Settings("weekly", NoneInt, None)>>
    /\ db_settings = settings
    /\ schedules = <<>>
    /\ db_schedules = schedules
    /\ faults = 0

NextRace ==
    \E p \in Threads :
        \/ /\ outcome[p] = "none"
           /\ p = 2 => (pc[1] = "pack_loop" /\ day[1] = NumDays - 1)
           /\ generate_all_schedules(p, TRUE)
        \/ BulkDelete(p)
        \/ GenreStep(p)
        \/ GenresDone(p)
        \/ HolidaysDone(p)
        \/ PackLoop(p)
        \/ PackCommit(p)
        \/ Finish(p)

SpecRace == InitRace /\ [][NextRace]_vars

\* C28: once two interleaved generate_all_schedules(force=True) calls on the
\* shared generator have both returned, every (channel, day) that has slots
\* holds one contiguous, non-overlapping set covering [0, 1440).
C28_InterleavedRebuildsCover ==
    (\A p \in Threads : pc[p] = "idle" /\ outcome[p] = "done") =>
        \A c \in channels_in(db_schedules), d \in Days :
            slots_of(db_schedules, c, d) # <<>> =>
                covers_day(order_by_start_time(slots_of(db_schedules, c, d)))

----------------------------------------------------------------------------
(* Channel numbers: get_next_available_number and its alphabetical path *)

AVAILABLE_NUMBER_RANGES ==
    <<<<207, 299>>, <<306, 399>>, <<407, 499>>, <<500, 599>>, <<602, 665>>,
      <<667, 699>>, <<703, 799>>>>

\* any(start <= n <= end for start, end in AVAILABLE_NUMBER_RANGES)
in_available_ranges(n) ==
    \E i \in DOMAIN AVAILABLE_NUMBER_RANGES :
        AVAILABLE_NUMBER_RANGES[i][1] <= n /\ n <= AVAILABLE_NUMBER_RANGES[i][2]

\* the closing loops of both functions: the first number of the first range
\* with a number that is not used, else 999
first_unused(used_numbers) ==
    LET free(i) == {n \in AVAILABLE_NUMBER_RANGES[i][1]..AVAILABLE_NUMBER_RANGES[i][2] :
                       n \notin used_numbers}
        open == {i \in DOMAIN AVAILABLE_NUMBER_RANGES : free(i) # {}}
    IN  IF open = {} THEN 999
        ELSE LET first == CHOOSE i \in open : \A j \in open : i <= j
             IN  CHOOSE n \in free(first) : \A m \in free(first) : n <= m

\* lines 204-217 from range i on: the range that holds slot `target`, the
\* candidate moved up past used numbers, the next range when it leaves this one
RECURSIVE scan_ranges(_, _, _, _)
scan_ranges(i, current_slot, target, used_numbers) ==
    IF i > Len(AVAILABLE_NUMBER_RANGES) THEN first_unused(used_numbers)
    ELSE LET start == AVAILABLE_NUMBER_RANGES[i][1]
             end == AVAILABLE_NUMBER_RANGES[i][2]
             range_size == end - start + 1
             offset == target - current_slot
             stops == {c \in (start + offset)..(end + 1) : c \notin used_numbers \/ c > end}
             candidate == CHOOSE c \in stops : \A d \in stops : c <= d
         IN  IF current_slot + range_size > target /\ candidate <= end
             THEN candidate
             ELSE scan_ranges(i + 1, current_slot + range_size, target, used_numbers)

get_alphabetical_position_number(channel_name, unmapped_channels, used_numbers) ==
    LET sorted_channels == sorted(unmapped_channels)
        found == {i \in DOMAIN sorted_channels : sorted_channels[i] = channel_name}
        position == IF found # {} THEN (CHOOSE i \in found : \A j \in found : i <= j) - 1
                    ELSE Len(sorted_channels)
        sizes == [i \in DOMAIN AVAILABLE_NUMBER_RANGES |->
                     AVAILABLE_NUMBER_RANGES[i][2] - AVAILABLE_NUMBER_RANGES[i][1] + 1]
        total_available == sizes[1] + sizes[2] + sizes[3] + sizes[4] + sizes[5] + sizes[6]
                               + sizes[7]
                               - Cardinality({n \in used_numbers : in_available_ranges(n)})
        per_channel == total_available \div (IF Len(sorted_channels) > 1
                                             THEN Len(sorted_channels) ELSE 1)
        step == IF per_channel > 1 THEN per_channel ELSE 1
    IN  IF total_available <= 0 THEN 999
        ELSE scan_ranges(1, 0, position * step, used_numbers)

get_next_available_number(base_number, used_numbers, channel_name, unmapped_channels) ==
    LET near == {offset \in 1..99 :
                    /\ (base_number + offset) \notin used_numbers
                    /\ in_available_ranges(base_number + offset)}
    IN  IF TruthyNum(base_number) /\ near # {}
        THEN base_number + (CHOOSE o \in near : \A q \in near : o <= q)
        ELSE IF Truthy(channel_name) /\ unmapped_channels # <<>>
        THEN get_alphabetical_position_number(channel_name, unmapped_channels, used_numbers)
        ELSE first_unused(used_numbers)

\* one call, as get_channel_number makes it
NextAvailableNumber(base_number, used_numbers, channel_name, unmapped_channels) ==
    /\ number_call = <<>>
    /\ number_call' = <<[base_number |-> base_number, used_numbers |-> used_numbers,
                         channel_name |-> channel_name,
                         unmapped_channels |-> unmapped_channels,
                         result |-> get_next_available_number(base_number, used_numbers,
                                        channel_name, unmapped_channels)]>>
    /\ UNCHANGED <<requests, current, channels, movies, holiday_channels, overrides,
                   tmdb_reply, cache, touched, cache_call, current_month, today, settings, db_settings,
                   schedules, db_schedules, pc, force, day, gi, active_holidays, hi,
                   ret, pack_channel, valid_movies, current_time, movie_index,
                   channels_generated, errors_encountered, faults, outcome,
                   matching_movies, active, packed_pairs, failed_pairs, last_call>>

\* the numbers of CHANNEL_NUMBERS
HardcodedNumbers ==
    (201..206) \cup (301..305) \cup (401..406) \cup {601, 613, 666, 701, 702}
        \cup {801, 802, 807, 810, 811, 812}

\* every number of the ranges
AllAvailable == {n \in 207..799 : in_available_ranges(n)}

NextNumbers ==
    \E base_number \in {NoneInt, 0, 200, 300, 666, 800},
       used_numbers \in {{}, HardcodedNumbers, 207..299, HardcodedNumbers \cup (207..299),
                         HardcodedNumbers \cup (287..305), AllAvailable,
                         AllAvailable \ {799}},
       channel_name \in {None, <<"A">>, <<"B">>, <<"X">>},
       unmapped_channels \in {<<>>, <<<<"B">>, <<"A">>>>,
                              <<<<"R">>, <<"A">>, <<"G">>, <<"B">>, <<"P">>, <<"H">>, <<"O">>>>} :
        NextAvailableNumber(base_number, used_numbers, channel_name, unmapped_channels)

SpecNumbers == InitRace /\ [][NextNumbers]_vars

\* C29: get_next_available_number returns the fallback 999, or a number that
\* is not in used_numbers and lies inside one of AVAILABLE_NUMBER_RANGES.
C29_NumberFreeAndInRange ==
    \A i \in DOMAIN number_call :
        LET q == number_call[i]
        IN  \/ q.result = 999
            \/ q.result \notin q.used_numbers /\ in_available_ranges(q.result)

----------------------------------------------------------------------------
(* BoundedImageCache: an OrderedDict of posters, the oldest entry first *)

\* the size limit; image_cache is built with 300
max_size == 2

keys_of(entries_) == {entries_[i].key : i \in DOMAIN entries_}

\* OrderedDict.move_to_end(key)
move_to_end(entries_, key) ==
    SelectSeq(entries_, LAMBDA e : e.key # key) \o SelectSeq(entries_, LAMBDA e : e.key = key)

\* the history of touches with `key` touched now
touch(key) == SelectSeq(touched, LAMBDA k : k # key) \o <<key>>

\* get without the move_to_end of line 34
get_without_move(key) ==
    /\ cache_call' = <<[op |-> "get", key |-> key,
                        result |-> IF key \in keys_of(cache)
                                   THEN (CHOOSE e \in Range(cache) : e.key = key).value
                                   ELSE None,
                        evicted |-> <<>>]>>
    /\ cache' = cache
    /\ touched' = IF key \in keys_of(cache) THEN touch(key) ELSE touched
    /\ UNCHANGED <<requests, current, channels, movies, holiday_channels, overrides,
                   tmdb_reply, number_call, current_month, today, settings, db_settings,
                   schedules, db_schedules, pc, force, day, gi, active_holidays, hi,
                   ret, pack_channel, valid_movies, current_time, movie_index,
                   channels_generated, errors_encountered, faults, outcome,
                   matching_movies, active, packed_pairs, failed_pairs, last_call>>

\* lines 31-36
get(key) ==
    /\ cache_call' = <<[op |-> "get", key |-> key,
                        result |-> IF key \in keys_of(cache)
                                   THEN (CHOOSE e \in Range(cache) : e.key = key).value
                                   ELSE None,
                        evicted |-> <<>>]>>
    /\ cache' = IF key \in keys_of(cache) THEN move_to_end(cache, key) ELSE cache
    /\ touched' = IF key \in keys_of(cache) THEN touch(key) ELSE touched
    /\ UNCHANGED <<requests, current, channels, movies, holiday_channels, overrides,
                   tmdb_reply, number_call, current_month, today, settings, db_settings,
                   schedules, db_schedules, pc, force, day, gi, active_holidays, hi,
                   ret, pack_channel, valid_movies, current_time, movie_index,
                   channels_generated, errors_encountered, faults, outcome,
                   matching_movies, active, packed_pairs, failed_pairs, last_call>>

\* lines 38-48
set(key, value) ==
    LET moved == IF key \in keys_of(cache) THEN move_to_end(cache, key) ELSE cache
        stored == IF key \in keys_of(moved)
                  THEN [i \in DOMAIN moved |->
                           IF moved[i].key = key THEN [key |-> key, value |-> value]
                           ELSE moved[i]]
                  ELSE Append(moved, [key |-> key, value |-> value])
    IN  /\ cache' = IF Len(stored) > max_size THEN Tail(stored) ELSE stored
        /\ cache_call' = <<[op |-> "set", key |-> key, result |-> None,
                            evicted |-> IF Len(stored) > max_size
                                        THEN <<stored[1].key>> ELSE <<>>]>>
        /\ touched' = touch(key)
        /\ UNCHANGED <<requests, current, channels, movies, holiday_channels, overrides,
                       tmdb_reply, number_call, current_month, today, settings, db_settings,
                       schedules, db_schedules, pc, force, day, gi, active_holidays, hi,
                       ret, pack_channel, valid_movies, current_time, movie_index,
                       channels_generated, errors_encountered, faults, outcome,
                       matching_movies, active, packed_pairs, failed_pairs, last_call>>

\* the posters asked for: two more keys than the cache holds
NextCache ==
    \E key \in 1..(max_size + 2) :
        \/ get(key)
        \/ \E value \in {<<"p">>, <<"q">>} : set(key, value)

SpecCache == InitRace /\ [][NextCache]_vars

\* the key of the cache that was touched least recently
least_recent(entries_, history) ==
    CHOOSE k \in keys_of(entries_) :
        \A i, j \in DOMAIN history :
            (history[i] = k /\ history[j] \in keys_of(entries_)) => i <= j

\* C30: after any sequence of get and set the cache holds at most max_size
\* entries, and a set that inserts a new key into a full cache evicts exactly
\* one key, the one least recently touched by get or set.
C30_BoundedLru ==
    /\ [](Len(cache) <= max_size /\ Cardinality(keys_of(cache)) = Len(cache))
    /\ [][ (keys_of(cache') \ keys_of(cache) # {} /\ Len(cache) = max_size) =>
              /\ Cardinality(keys_of(cache') \ keys_of(cache)) = 1
              /\ keys_of(cache) \ keys_of(cache') = {least_recent(cache, touched)} ]_vars

\* a full cache has taken a new key and dropped another
C30_Witness ==
    /\ cache_call # <<>>
    /\ cache_call[1].op = "set"
    /\ cache_call[1].evicted # <<>>
    /\ cache_call[1].evicted[1] \notin keys_of(cache)
    /\ cache_call[1].key \in keys_of(cache)
    /\ Len(cache) = max_size
    /\ Len(touched) > max_size

============================================================================
